---- MODULE Spec2Model ----
(***************************************************************************)
(* Restaurant ordering system (sistema-cardapio-pds): the order            *)
(* repository (creation with computed amounts, status updates,             *)
(* cancellation, payments, listings, analytics, the attention query), the  *)
(* orders route with its request schema and paginated response, the        *)
(* product listing, the coupon validator, the rate limiter, the settings   *)
(* repository, the mock service with its simulated order progression, and  *)
(* the client cart store.                                                  *)
(*                                                                         *)
(* A Firestore document is a function whose DOMAIN is the set of fields    *)
(* the document carries: a field whose value is `undefined` is absent.     *)
(* JavaScript numbers are IEEE-754 doubles: the products that the code     *)
(* rounds with Math.round are computed bit by bit below.                   *)
(***************************************************************************)
EXTENDS Integers, Sequences, FiniteSets, TLC

VARIABLES
  now,          \* the clock read by new Date() and FieldValue.serverTimestamp()
  orders,       \* the restaurant's orders collection: order id -> document
  mockOrders,   \* MockService.orders
  orderIdCounter, \* MockService.orderIdCounter
  mockTimers,   \* timers registered by MockService.simulateOrderProgression
  coupons,      \* the restaurant's coupons collection, in the store's order
  validation,   \* the last validateCoupon call and what it returned
  cart,         \* the state of useCartStore
  couponRequest, \* CartDrawer.handleApplyCoupon: the call in flight, then what it applied
  paymentCalls, \* OrderRepository.addPayment: the calls, each with its local `payments`
  listing,      \* the last OrderRepository.findWithQuery call and what it returned
  analytics,    \* the last OrderRepository.getAnalytics call and what it returned
  products,     \* the restaurant's products collection: product id -> document
  productListing, \* the last ProductRepository.findWithQuery call and what it returned
  attention,    \* the last OrderRepository.getOrdersRequiringAttention call and what it returned
  orderRequest, \* the last POST /:restaurantId/orders request and its response
  requests,     \* rateLimitValidation: the `requests` map, identifier -> record
  responses,    \* rateLimitValidation: what each request got, in order of arrival
  settings,     \* the restaurant's settings collection: document id -> document
  settingsCalls \* SettingsRepository.updateSettings: the calls and what each read

vars == <<now, orders, mockOrders, orderIdCounter, mockTimers, coupons, validation,
          cart, couponRequest, paymentCalls, listing, analytics, products, productListing,
          attention, orderRequest, requests, responses, settings, settingsCalls>>

orderVars  == <<orders>>
mockVars   == <<mockOrders, orderIdCounter, mockTimers>>
couponVars == <<coupons, validation>>
cartVars   == <<cart, couponRequest>>
queryVars  == <<listing, analytics, products, productListing>>
serverVars == <<attention, orderRequest, requests, responses, settings, settingsCalls>>

-----------------------------------------------------------------------------
(* Bounds of the model *)

MaxTime  == 2   \* clock values 0..MaxTime
MaxItems == 2   \* longest item list in a create-order request
MaxQty   == 2   \* largest quantity of a line item
MaxMockOrders == 1  \* orders one MockService instance is given
MaxCoupons == 2    \* documents in the coupons collection
MaxCartQty == 2    \* largest quantity of one cart line
MaxInFlight == 1   \* overlapping calls of handleApplyCoupon
MaxCalls == 2      \* calls of addPayment, calls of updateSettings
MaxPage == 3       \* largest page a listing asks for
MaxLimit == 2      \* largest limit a listing asks for
MaxArrivals == 4   \* requests that reach rateLimitValidation

-----------------------------------------------------------------------------
(* IEEE-754 double arithmetic on naturals held as little-endian sequences   *)
(* of 10-bit limbs                                                          *)

MantissaBits == 53

LimbBits == 10

Base == 2 ^ LimbBits

Empty == [x \in {} |-> 0]

Zeros(k) == [i \in 1..k |-> 0]

RECURSIVE NatLimbs(_)
NatLimbs(n) == IF n = 0 THEN <<>> ELSE <<n % Base>> \o NatLimbs(n \div Base)

RECURSIVE LimbsVal(_)
LimbsVal(x) == IF x = <<>> THEN 0 ELSE Head(x) + Base * LimbsVal(Tail(x))

\* without the zero limbs at the most significant end
Normalize(x) ==
  LET nz == { i \in 1..Len(x) : x[i] # 0 }
  IN IF nz = {} THEN <<>> ELSE SubSeq(x, 1, CHOOSE i \in nz : \A j \in nz : j <= i)

\* the number of bits of a normalized x
BitLen(x) ==
  IF x = <<>> THEN 0
  ELSE (Len(x) - 1) * LimbBits + Cardinality({ k \in 0..(LimbBits - 1) : 2 ^ k <= x[Len(x)] })

\* bit i of x, bit 0 the least significant
Bit(x, i) ==
  IF i < 0 \/ i \div LimbBits + 1 > Len(x) THEN 0
  ELSE (x[i \div LimbBits + 1] \div (2 ^ (i % LimbBits))) % 2

\* floor(x / 2^k)
ShiftRight(x, k) ==
  LET q   == k \div LimbBits
      r   == k % LimbBits
      at(j) == IF j <= Len(x) THEN x[j] ELSE 0
  IN Normalize([j \in 1..(IF Len(x) > q THEN Len(x) - q ELSE 0) |->
                 (at(j + q) \div (2 ^ r)) + (at(j + q + 1) % (2 ^ r)) * (2 ^ (LimbBits - r))])

\* x * s + carry, for a small natural s
RECURSIVE MulLimbs(_, _, _)
MulLimbs(x, s, carry) ==
  IF x = <<>> THEN NatLimbs(carry)
  ELSE LET t == Head(x) * s + carry
       IN <<t % Base>> \o MulLimbs(Tail(x), s, t \div Base)

\* quotient and remainder of x by a small natural d
RECURSIVE DivLimbs(_, _)
DivLimbs(x, d) ==
  IF x = <<>> THEN [q |-> <<>>, r |-> 0]
  ELSE LET hi == DivLimbs(Tail(x), d)
           t  == hi.r * Base + Head(x)
       IN [q |-> <<t \div d>> \o hi.q, r |-> t % d]

RECURSIVE IncLimbs(_)
IncLimbs(x) ==
  IF x = <<>> THEN <<1>>
  ELSE IF Head(x) + 1 < Base THEN <<Head(x) + 1>> \o Tail(x)
  ELSE <<0>> \o IncLimbs(Tail(x))

\* The double nearest to (x + a nonzero fraction if sticky) * 2^e, ties to even:
\* a double is [m |-> mantissa, e |-> exponent], of value m * 2^e.
RoundDouble(x, sticky, e) ==
  LET n == Normalize(x)
      L == BitLen(n)
      k == L - MantissaBits
  IN IF k <= 0 THEN [m |-> n, e |-> e]
     ELSE LET keep  == ShiftRight(n, k)
              guard == Bit(n, k - 1)
              rest  == sticky \/ \E i \in 0..(k - 2) : Bit(n, i) = 1
              up    == guard = 1 /\ (rest \/ Bit(keep, 0) = 1)
          IN [m |-> IF up THEN IncLimbs(keep) ELSE keep, e |-> e + k]

\* a / d in double arithmetic, for naturals a > 0 and d > 0, a / d >= 2^-10:
\* the quotient of a * 2^70 by d has more than MantissaBits bits
DoubleDiv(a, d) ==
  LET qr == DivLimbs(Zeros(7) \o NatLimbs(a), d)
  IN RoundDouble(qr.q, qr.r # 0, 0 - 7 * LimbBits)

\* s * x in double arithmetic, for a natural s and a double x
DoubleMulNat(s, x) == RoundDouble(MulLimbs(x.m, s, 0), FALSE, x.e)

\* Math.round: the nearest integer, halves towards +infinity
MathRound(x) ==
  IF x.e >= 0 THEN LimbsVal(x.m) * (2 ^ x.e)
  ELSE LimbsVal(ShiftRight(x.m, 0 - x.e)) + Bit(x.m, 0 - x.e - 1)

\* the sum of the values of f over S
RECURSIVE SetSum(_, _)
SetSum(f, S) ==
  IF S = {} THEN 0
  ELSE LET x == CHOOSE y \in S : TRUE IN f[x] + SetSum(f, S \ {x})

\* the literal 0.1
PointOne == DoubleDiv(1, 10)

-----------------------------------------------------------------------------
(* Types of models/types: OrderStatus, OrderChannel *)

OrderStatus == {"draft", "placed", "confirmed", "in_preparation", "ready",
                "served", "closed", "canceled"}

OrderChannel == {"dine_in", "takeaway", "delivery"}

RestaurantId == "demo-restaurant"

\* JavaScript's `x || undefined` on a number, as a one-field document:
\* the field is present only when x is truthy (nonzero)
OrUndefined(field, x) == IF x # 0 THEN field :> x ELSE Empty

-----------------------------------------------------------------------------
(* OrderRepository.createOrder *)

RECURSIVE OptionsPrice(_)
OptionsPrice(options) ==
  IF options = <<>> THEN 0 ELSE OptionsPrice(SubSeq(options, 1, Len(options) - 1))
                                 + options[Len(options)].price

\* Subtotal with the options charged once per line instead of once per unit
RECURSIVE SubtotalOptionsOncePerLine(_)
SubtotalOptionsOncePerLine(items) ==
  IF items = <<>> THEN 0
  ELSE LET item == items[Len(items)]
       IN SubtotalOptionsOncePerLine(SubSeq(items, 1, Len(items) - 1))
          + item.unitPrice * item.qty + OptionsPrice(item.options)

RECURSIVE Subtotal(_)
Subtotal(items) ==
  IF items = <<>> THEN 0
  ELSE LET item == items[Len(items)]
       IN Subtotal(SubSeq(items, 1, Len(items) - 1))
          + (item.unitPrice + OptionsPrice(item.options)) * item.qty

\* ServiceFee with the tenth truncated (Math.floor) instead of rounded
ServiceFeeTruncated(channel, subtotal) ==
  IF channel = "dine_in" THEN subtotal \div 10 ELSE 0

ServiceFee(channel, subtotal) ==
  IF channel = "dine_in" THEN MathRound(DoubleMulNat(subtotal, PointOne)) ELSE 0

DeliveryFee(channel) == IF channel = "delivery" THEN 500 ELSE 0

OrderFees(serviceFee, deliveryFee) ==
  OrUndefined("service", serviceFee) @@ OrUndefined("delivery", deliveryFee)

\* OrderTotal that forgets the delivery fee
OrderTotalWithoutDelivery(subtotal, serviceFee, deliveryFee) == subtotal + serviceFee

OrderTotal(subtotal, serviceFee, deliveryFee) == subtotal + serviceFee + deliveryFee

\* NewOrder with the caller's data spread last, over status and amounts
NewOrderDataLast(orderData, orderNumber) ==
  orderData
  @@ [orderNumber |-> orderNumber, status |-> "placed", restaurantId |-> RestaurantId,
      amounts |-> [subtotal |-> Subtotal(orderData.items), discounts |-> 0,
                   fees |-> Empty, total |-> Subtotal(orderData.items)]]

\* the object createOrder passes to create: later spread entries override earlier
NewOrder(orderData, orderNumber) ==
  LET subtotal    == Subtotal(orderData.items)
      serviceFee  == ServiceFee(orderData.channel, subtotal)
      deliveryFee == DeliveryFee(orderData.channel)
  IN [orderNumber |-> orderNumber,
      status      |-> "placed",
      amounts     |-> [subtotal  |-> subtotal,
                       discounts |-> 0,
                       fees      |-> OrderFees(serviceFee, deliveryFee),
                       total     |-> OrderTotal(subtotal, serviceFee, deliveryFee)]]
     @@ orderData
     @@ [restaurantId |-> RestaurantId]

\* BaseRepository.create: the document, stamped by the store
Created(data, t) == [createdAt |-> t, updatedAt |-> t] @@ data

\* an update that replaces the document by the fields given
UpdatedReplacing(doc, data, t) == [updatedAt |-> t] @@ data

\* BaseRepository.update: the store merges the fields into the document
Updated(doc, data, t) == ([updatedAt |-> t] @@ data) @@ doc

CreateOrder(id, orderData, orderNumber) ==
  /\ id \notin DOMAIN orders
  /\ orders' = (id :> Created(NewOrder(orderData, orderNumber), now)) @@ orders
  /\ UNCHANGED <<now, mockVars, couponVars, cartVars, paymentCalls, queryVars, serverVars>>

-----------------------------------------------------------------------------
(* OrderRepository.updateStatus, OrderRepository.cancel *)

StatusUpdates(status, t) ==
  [status |-> status] @@ (IF status = "closed" THEN [closedAt |-> t] ELSE Empty)

\* update() of a document that does not exist fails and writes nothing
UpdateStatus(id, status) ==
  /\ id \in DOMAIN orders
  /\ orders' = [orders EXCEPT ![id] = Updated(@, StatusUpdates(status, now), now)]
  /\ UNCHANGED <<now, mockVars, couponVars, cartVars, paymentCalls, queryVars, serverVars>>

\* a reason is <<>> when the argument is omitted, <<text>> when a string is given
Truthy(reason) == reason # <<>> /\ reason[1] # ""

CancelUpdates(reason, t) ==
  [status |-> "canceled", closedAt |-> t]
  @@ (IF Truthy(reason) THEN [cancelReason |-> reason[1]] ELSE Empty)

Cancel(id, reason) ==
  /\ id \in DOMAIN orders
  /\ orders' = [orders EXCEPT ![id] = Updated(@, CancelUpdates(reason, now), now)]
  /\ UNCHANGED <<now, mockVars, couponVars, cartVars, paymentCalls, queryVars, serverVars>>

Tick ==
  /\ now < MaxTime
  /\ now' = now + 1
  /\ UNCHANGED <<orderVars, mockVars, couponVars, cartVars, paymentCalls, queryVars, serverVars>>

-----------------------------------------------------------------------------
(* MockService.createOrder (the client-side service used by the cart) *)

MockServiceFee(channel, subtotal) ==
  IF channel = "dine_in" THEN MathRound(DoubleMulNat(subtotal, PointOne)) ELSE 0

MockDeliveryFee(channel) == IF channel = "delivery" THEN 590 ELSE 0

MockOrderId(counter) == <<"order-", counter>>

MockNewOrder(orderId, orderData, orderNumber, t) ==
  LET subtotal    == Subtotal(orderData.items)
      serviceFee  == MockServiceFee(orderData.channel, subtotal)
      deliveryFee == MockDeliveryFee(orderData.channel)
  IN [createdAt |-> t, updatedAt |-> t]
     @@ [orderNumber |-> orderNumber,
         status      |-> "placed",
         channel     |-> orderData.channel,
         amounts     |-> [subtotal  |-> subtotal,
                          discounts |-> 0,
                          fees      |-> [service |-> serviceFee, delivery |-> deliveryFee],
                          total     |-> subtotal + serviceFee + deliveryFee]]
     @@ orderData
     @@ [id |-> orderId]

\* simulateOrderProgression(orderId): currentIndex = 0 and the first timer
\* (progressOrder, after 5 s) is registered; the mock service's clock counts
\* milliseconds
MockCreateOrder(orderData, orderNumber) ==
  LET orderId == MockOrderId(orderIdCounter)
  IN /\ orderIdCounter < 1000 + MaxMockOrders
     /\ orderIdCounter' = orderIdCounter + 1
     /\ mockOrders' = Append(mockOrders, MockNewOrder(orderId, orderData, orderNumber, now))
     /\ mockTimers' = Append(mockTimers,
                             [orderId |-> orderId, callback |-> "progressOrder", currentIndex |-> 0,
                              due |-> now + 5000])
     /\ UNCHANGED <<now, orderVars, couponVars, cartVars, paymentCalls, queryVars, serverVars>>

-----------------------------------------------------------------------------
(* Inputs *)

SelectedOption(id, name, choice, price) ==
  [id |-> id, name |-> name, choice |-> choice, price |-> price]

Bacon == SelectedOption("extras", "Adicionais", "Bacon Crocante", 590)
Egg   == SelectedOption("extras", "Adicionais", "Ovo Frito", 390)

\* products a request can name: [productId, name, unitPrice] and the option
\* lists the product admits
Products ==
  { [productId |-> "burger-01", name |-> "Burger Artesanal", unitPrice |-> 2890, options |-> o]
      : o \in {<<Bacon>>, <<Bacon, Egg>>} }
  \cup { [productId |-> "mint-01",  name |-> "Bala de Menta", unitPrice |-> 2, options |-> <<>>],
         [productId |-> "candy-01", name |-> "Doce",          unitPrice |-> 5, options |-> <<>>] }

\* OrderItemSchema: qty a positive integer, unitPrice and option prices >= 0
OrderItems == { p @@ [qty |-> q] : p \in Products, q \in 1..MaxQty }

\* CreateOrderSchema: at least one item
RECURSIVE SeqsUpTo(_, _)
SeqsUpTo(S, n) ==
  IF n = 0 THEN {<<>>}
  ELSE LET shorter == SeqsUpTo(S, n - 1)
       IN shorter \cup { Append(q, x) : q \in { r \in shorter : Len(r) = n - 1 }, x \in S }

ItemLists == SeqsUpTo(OrderItems, MaxItems) \ {<<>>}

PricingOrderData == { [items |-> i, channel |-> c] : i \in ItemLists, c \in OrderChannel }

BurgerWithBacon ==
  <<[productId |-> "burger-01", name |-> "Burger Artesanal", unitPrice |-> 2890,
     options |-> <<Bacon>>, qty |-> 1]>>

MockOrderData == { [items |-> BurgerWithBacon, channel |-> c] : c \in OrderChannel }

LifecycleOrderData ==
  { [items |-> BurgerWithBacon, channel |-> "delivery"],
    [items |-> BurgerWithBacon, channel |-> "dine_in", tableId |-> "table-01"] }

\* ids the store hands out (docRef.id)
OrderIds == {"order-a", "order-b"}

\* Math.floor(1000 + Math.random() * 9000): the least and the greatest value
OrderNumbers == {1000, 9999}

\* reasons passed to cancel: omitted, the empty string, a text
Reasons == {<<>>, <<"">>, <<"cliente desistiu">>}

-----------------------------------------------------------------------------
(* Initial state: empty collections, a fresh MockService, an empty cart *)

initialState ==
  [items |-> <<>>, channel |-> "dine_in", subtotal |-> 0, discounts |-> 0,
   fees |-> Empty, total |-> 0, couponCode |-> <<>>]

NoValidation == [called |-> FALSE]

NoRequest == [pending |-> <<>>, toast |-> [title |-> ""]]

\* no addPayment call made yet
NoCalls == <<>>

\* no query made yet
NoListing == [called |-> FALSE]

Init ==
  /\ now = 0
  /\ orders = Empty
  /\ mockOrders = <<>>
  /\ orderIdCounter = 1000
  /\ mockTimers = <<>>
  /\ coupons = <<>>
  /\ validation = NoValidation
  /\ cart = initialState
  /\ couponRequest = NoRequest
  /\ paymentCalls = NoCalls
  /\ listing = NoListing
  /\ analytics = NoListing
  /\ products = Empty
  /\ productListing = NoListing
  /\ attention = NoListing
  /\ orderRequest = NoListing
  /\ requests = Empty
  /\ responses = <<>>
  /\ settings = Empty
  /\ settingsCalls = <<>>

-----------------------------------------------------------------------------
(* Spec: the life of orders in the repository *)

Next ==
  \/ \E id \in OrderIds, d \in LifecycleOrderData : CreateOrder(id, d, 1000)
  \/ \E id \in OrderIds, s \in OrderStatus : UpdateStatus(id, s)
  \/ \E id \in OrderIds, r \in Reasons : Cancel(id, r)
  \/ Tick

Spec == Init /\ [][Next]_vars

-----------------------------------------------------------------------------
(* SpecPricing: amounts of created orders, server and mock service *)

NextPricing ==
  \/ \E d \in PricingOrderData, n \in OrderNumbers : CreateOrder("order-a", d, n)
  \/ \E d \in MockOrderData : MockCreateOrder(d, 1000)

SpecPricing == Init /\ [][NextPricing]_vars

-----------------------------------------------------------------------------
(* CouponRepository.findByCode, CouponRepository.validateCoupon *)

\* String.prototype.toUpperCase, on the codes of the model
ToUpperCase(code) ==
  CASE code = "bemvindo10" -> "BEMVINDO10"
    [] code = "Desconto5"  -> "DESCONTO5"
    [] code = "frete0"     -> "FRETE0"
    [] OTHER               -> code

\* findWhere('code', '==', value): the matching documents, in the store's order
FindWhereCode(value) == SelectSeq(coupons, LAMBDA c : c.code = value)

\* coupons[0] || null: <<>> is null, <<c>> the coupon c
FindByCode(code) ==
  LET found == FindWhereCode(ToUpperCase(code))
  IN IF found = <<>> THEN <<>> ELSE <<found[1]>>

Failure(message) == [valid |-> FALSE, error |-> [message |-> message]]

\* `coupon.minSubtotal &&`: the field is defined and not 0
HasMinSubtotal(coupon) == "minSubtotal" \in DOMAIN coupon /\ coupon.minSubtotal # 0

\* validateCoupon with the inactive and the expired checks in the other order
ValidateFoundExpiredFirst(found, subtotal, t) ==
  IF found = <<>> THEN Failure("Coupon not found")
  ELSE LET coupon == found[1]
       IN IF t > coupon.validTo THEN Failure("Coupon has expired")
          ELSE IF ~coupon.active THEN Failure("Coupon is not active")
          ELSE IF t < coupon.validFrom THEN Failure("Coupon is not yet valid")
          ELSE IF HasMinSubtotal(coupon) /\ subtotal < coupon.minSubtotal
            THEN [valid |-> FALSE,
                  error |-> [message |-> "Minimum order value of $ required",
                             minSubtotal |-> coupon.minSubtotal]]
          ELSE [valid |-> TRUE, coupon |-> coupon]

\* validateCoupon that attaches the coupon to a below-minimum failure
ValidateFoundAttachingCoupon(found, subtotal, t) ==
  IF found = <<>> THEN Failure("Coupon not found")
  ELSE LET coupon == found[1]
       IN IF ~coupon.active THEN Failure("Coupon is not active")
          ELSE IF t < coupon.validFrom THEN Failure("Coupon is not yet valid")
          ELSE IF t > coupon.validTo THEN Failure("Coupon has expired")
          ELSE IF HasMinSubtotal(coupon) /\ subtotal < coupon.minSubtotal
            THEN [valid |-> FALSE, coupon |-> coupon,
                  error |-> [message |-> "Minimum order value of $ required",
                             minSubtotal |-> coupon.minSubtotal]]
          ELSE [valid |-> TRUE, coupon |-> coupon]

\* the body of the try block, after the lookup returned `found`, at time t
ValidateFound(found, subtotal, t) ==
  IF found = <<>> THEN Failure("Coupon not found")
  ELSE LET coupon == found[1]
       IN IF ~coupon.active THEN Failure("Coupon is not active")
          ELSE IF t < coupon.validFrom THEN Failure("Coupon is not yet valid")
          ELSE IF t > coupon.validTo THEN Failure("Coupon has expired")
          ELSE IF HasMinSubtotal(coupon) /\ subtotal < coupon.minSubtotal
            THEN [valid |-> FALSE,
                  error |-> [message |-> "Minimum order value of $ required",
                             minSubtotal |-> coupon.minSubtotal]]
          ELSE [valid |-> TRUE, coupon |-> coupon]

\* lookupFails: the store query of findWhere throws, and the catch answers
ValidateCoupon(code, subtotal, lookupFails) ==
  /\ validation' =
       [called |-> TRUE, code |-> code, subtotal |-> subtotal, at |-> now,
        lookupFailed |-> lookupFails,
        result |-> IF lookupFails THEN Failure("Error validating coupon")
                   ELSE ValidateFound(FindByCode(code), subtotal, now)]
  /\ UNCHANGED <<now, coupons, orderVars, mockVars, cartVars, paymentCalls, queryVars, serverVars>>

\* CreateCouponSchema: code upper-cased, value > 0, validTo after validFrom,
\* minSubtotal optional and >= 0
CouponDocs ==
  LET base == { [id |-> "coupon-01", code |-> "BEMVINDO10", type |-> "percent", value |-> 10,
                 validFrom |-> w[1], validTo |-> w[2], active |-> a]
                  : w \in {<<0, 1>>, <<1, 2>>}, a \in BOOLEAN }
  IN base \cup { c @@ [minSubtotal |-> m] : c \in base, m \in {0, 2000} }

CouponStores == SeqsUpTo(CouponDocs, MaxCoupons)

CouponCodeInputs == {"BEMVINDO10", "bemvindo10", "FRETE0"}

SubtotalInputs == {0, 1999, 2000}

InitCoupon ==
  /\ now = 0
  /\ orders = Empty
  /\ mockOrders = <<>>
  /\ orderIdCounter = 1000
  /\ mockTimers = <<>>
  /\ coupons \in CouponStores
  /\ validation = NoValidation
  /\ cart = initialState
  /\ couponRequest = NoRequest
  /\ paymentCalls = NoCalls
  /\ listing = NoListing
  /\ analytics = NoListing
  /\ products = Empty
  /\ productListing = NoListing
  /\ attention = NoListing
  /\ orderRequest = NoListing
  /\ requests = Empty
  /\ responses = <<>>
  /\ settings = Empty
  /\ settingsCalls = <<>>

NextCoupon ==
  \/ \E c \in CouponCodeInputs, n \in SubtotalInputs, f \in BOOLEAN : ValidateCoupon(c, n, f)
  \/ Tick

SpecCoupon == InitCoupon /\ [][NextCoupon]_vars

-----------------------------------------------------------------------------
(* useCartStore, CartDrawer.handleApplyCoupon, MockService.getCoupon *)

\* demoCoupons; the clock of the model reads 1 from 2024-01-01 to 2024-12-31
demoCoupons ==
  << [id |-> "coupon-01", code |-> "BEMVINDO10", type |-> "percent", value |-> 10,
      validFrom |-> 1, validTo |-> 1, minSubtotal |-> 2000, active |-> TRUE],
     [id |-> "coupon-02", code |-> "DESCONTO5", type |-> "fixed", value |-> 500,
      validFrom |-> 1, validTo |-> 1, active |-> TRUE],
     [id |-> "coupon-03", code |-> "FRETE0", type |-> "fixed", value |-> 590,
      validFrom |-> 1, validTo |-> 1, minSubtotal |-> 5000, active |-> TRUE] >>

\* MockService.getCoupon: demoCoupons.find(...) || null
GetCoupon(code, t) ==
  LET found == SelectSeq(demoCoupons,
                         LAMBDA c : /\ c.code = ToUpperCase(code)
                                    /\ c.active
                                    /\ t >= c.validFrom
                                    /\ t <= c.validTo)
  IN IF found = <<>> THEN <<>> ELSE <<found[1]>>

\* calculateTotals
CalculateTotals(state) ==
  LET subtotal  == SetSum([i \in DOMAIN state.items |->
                             (state.items[i].price + OptionsPrice(state.items[i].options))
                             * state.items[i].qty],
                          DOMAIN state.items)
      feesTotal == SetSum(state.fees, DOMAIN state.fees)
  IN [state EXCEPT !.subtotal = subtotal,
                   !.total = subtotal - state.discounts + feesTotal]

\* the line of the cart with this product and these options
SameLine(item, productId, options) == item.productId = productId /\ item.options = options

AddItem(item) ==
  LET existing == { i \in DOMAIN cart.items :
                      SameLine(cart.items[i], item.productId, item.options) }
      newItems ==
        IF existing # {}
          THEN LET k == CHOOSE i \in existing : \A j \in existing : i <= j
               IN [cart.items EXCEPT ![k].qty = @ + item.qty]
          ELSE Append(cart.items, item)
  IN /\ \A i \in DOMAIN newItems : newItems[i].qty <= MaxCartQty
     /\ cart' = CalculateTotals([cart EXCEPT !.items = newItems])
     /\ UNCHANGED <<now, couponRequest, orderVars, mockVars, couponVars, paymentCalls, queryVars, serverVars>>

RemoveItem(productId, options) ==
  /\ cart' = CalculateTotals(
       [cart EXCEPT !.items = SelectSeq(@, LAMBDA it : ~SameLine(it, productId, options))])
  /\ UNCHANGED <<now, couponRequest, orderVars, mockVars, couponVars, paymentCalls, queryVars, serverVars>>

UpdateItemQty(productId, qty, options) ==
  LET updated == [i \in DOMAIN cart.items |->
                    IF SameLine(cart.items[i], productId, options)
                      THEN [cart.items[i] EXCEPT !.qty = qty]
                      ELSE cart.items[i]]
  IN /\ cart' = CalculateTotals(
          [cart EXCEPT !.items =
             SelectSeq(updated, LAMBDA it : ~(SameLine(it, productId, options) /\ qty <= 0))])
     /\ UNCHANGED <<now, couponRequest, orderVars, mockVars, couponVars, paymentCalls, queryVars, serverVars>>

ApplyCoupon(code, discount) ==
  CalculateTotals([cart EXCEPT !.couponCode = <<code>>, !.discounts = discount])

RemoveCoupon ==
  /\ cart' = CalculateTotals([cart EXCEPT !.couponCode = <<>>, !.discounts = 0])
  /\ UNCHANGED <<now, couponRequest, orderVars, mockVars, couponVars, paymentCalls, queryVars, serverVars>>

\* handleApplyCoupon: "Calculate discount"
Discount(coupon, subtotal) ==
  IF coupon.type = "percent"
    THEN MathRound(DoubleMulNat(subtotal, DoubleDiv(coupon.value, 100)))
    ELSE coupon.value

\* handleApplyCoupon up to `await mockService.getCoupon(...)`: the coupon
\* input is rendered for a non-empty cart without a coupon, and the handler
\* keeps the subtotal of the render it was created in. Nothing disables the
\* button while a call is awaited, so calls can overlap.
HandleApplyCouponStart(couponInput) ==
  /\ cart.items # <<>>
  /\ cart.couponCode = <<>>
  /\ Len(couponRequest.pending) < MaxInFlight
  /\ couponRequest' =
       [couponRequest EXCEPT !.pending =
          Append(@, [couponInput |-> couponInput, subtotal |-> cart.subtotal])]
  /\ UNCHANGED <<now, cart, orderVars, mockVars, couponVars, paymentCalls, queryVars, serverVars>>

\* handleApplyCoupon after the await returned `found` (<<>> is null): no
\* coupon or a subtotal below the minimum is a toast and nothing else;
\* otherwise the discount is applied. getCoupon waits a constant 400 ms, so
\* overlapping calls resume in the order they were made.
HandleApplyCouponResume(found) ==
  /\ couponRequest.pending # <<>>
  /\ LET call     == Head(couponRequest.pending)
         subtotal == call.subtotal
         rest     == Tail(couponRequest.pending)
     IN IF found = <<>>
          THEN /\ couponRequest' = [pending |-> rest,
                                    toast |-> [title |-> "Cupom inválido"]]
               /\ UNCHANGED cart
        ELSE IF HasMinSubtotal(found[1]) /\ subtotal < found[1].minSubtotal
          THEN /\ couponRequest' = [pending |-> rest,
                                    toast |-> [title |-> "Valor mínimo não atingido"]]
               /\ UNCHANGED cart
        ELSE LET discount == Discount(found[1], subtotal)
             IN /\ cart' = ApplyCoupon(ToUpperCase(call.couponInput), discount)
                /\ couponRequest' =
                     [pending |-> rest,
                      toast |-> [title |-> "Cupom aplicado!", discount |-> discount]]
  /\ UNCHANGED <<now, orderVars, mockVars, couponVars, paymentCalls, queryVars, serverVars>>

\* the whole handler with MockService.getCoupon as the service
HandleApplyCouponFinish ==
  /\ couponRequest.pending # <<>>
  /\ HandleApplyCouponResume(
       GetCoupon(ToUpperCase(Head(couponRequest.pending).couponInput), now))

Simples == SelectedOption("size-coffee", "Tamanho", "Simples", 0)

AoPonto == SelectedOption("protein-level", "Ponto da Carne", "Ao Ponto", 0)

\* what ProductCard.handleAddToCart passes to addItem
CartProducts ==
  { [productId |-> "burger-01", name |-> "Burger Artesanal", price |-> 2890, options |-> <<Bacon>>],
    [productId |-> "coffee-01", name |-> "Café Expresso", price |-> 490, options |-> <<Simples>>] }

CartItems == { p @@ [qty |-> q] : p \in CartProducts, q \in 1..MaxQty }

CouponInputs == {"BEMVINDO10", "DESCONTO5", "FRETE0", "NATAL"}

NextCart ==
  \/ \E item \in CartItems : AddItem(item)
  \/ \E p \in CartProducts : RemoveItem(p.productId, p.options)
  \/ \E p \in CartProducts, q \in 0..MaxCartQty : UpdateItemQty(p.productId, q, p.options)
  \/ \E c \in CouponInputs : HandleApplyCouponStart(c)
  \/ HandleApplyCouponFinish
  \/ RemoveCoupon
  \/ Tick

SpecCart == Init /\ [][NextCart]_vars

\* the coupons of type Coupon a service can return to handleApplyCoupon
ServiceCoupons ==
  LET base == { [id |-> "coupon-01", code |-> "BEMVINDO10", type |-> "percent", value |-> 10,
                 validFrom |-> 1, validTo |-> 1, active |-> TRUE],
                [id |-> "coupon-04", code |-> "NATAL", type |-> "percent", value |-> 35,
                 validFrom |-> 1, validTo |-> 1, active |-> TRUE],
                [id |-> "coupon-02", code |-> "DESCONTO5", type |-> "fixed", value |-> 500,
                 validFrom |-> 1, validTo |-> 1, active |-> TRUE] }
  IN base \cup { c @@ [minSubtotal |-> 2000] : c \in base }

DiscountProducts ==
  { [productId |-> "burger-01", name |-> "Burger Artesanal", price |-> 2890, options |-> <<AoPonto>>],
    [productId |-> "burger-01", name |-> "Burger Artesanal", price |-> 2890, options |-> <<Bacon>>] }

DiscountItems == { p @@ [qty |-> q] : p \in DiscountProducts, q \in 1..MaxQty }

\* the cart and handleApplyCoupon, with a service that answers any coupon
NextDiscount ==
  \/ \E item \in DiscountItems : AddItem(item)
  \/ \E p \in DiscountProducts : RemoveItem(p.productId, p.options)
  \/ \E c \in ServiceCoupons : HandleApplyCouponStart(c.code)
  \/ \E c \in ServiceCoupons :
       /\ couponRequest.pending # <<>>
       /\ c.code = ToUpperCase(Head(couponRequest.pending).couponInput)
       /\ HandleApplyCouponResume(<<c>>)
  \/ HandleApplyCouponResume(<<>>)
  \/ RemoveCoupon

SpecDiscount == Init /\ [][NextDiscount]_vars

-----------------------------------------------------------------------------
(* OrderRepository.addPayment *)

\* Payment: { method, amount, changeDue? }
Payments ==
  { [method |-> "cash", amount |-> 4000, changeDue |-> 172],
    [method |-> "pix", amount |-> 3828] }

\* addPayment's local array that forgets what the order already holds
LocalPaymentsWithoutPrevious(order, payment) == <<payment>>

\* const payments = order.payments || []; payments.push(payment)
LocalPayments(order, payment) ==
  Append(IF "payments" \in DOMAIN order THEN order.payments ELSE <<>>, payment)

\* addPayment run to its end with no other call in between: findById, push,
\* update; on a missing order it throws and writes nothing
AddPayment(id, payment) ==
  /\ Len(paymentCalls) < MaxCalls
  /\ IF id \in DOMAIN orders
       THEN /\ orders' = [orders EXCEPT ![id] =
                            Updated(@, [payments |-> LocalPayments(@, payment)], now)]
            /\ paymentCalls' = Append(paymentCalls,
                 [orderId |-> id, payment |-> payment, phase |-> "done"])
       ELSE /\ paymentCalls' = Append(paymentCalls,
                 [orderId |-> id, payment |-> payment, phase |-> "failed"])
            /\ UNCHANGED orders
  /\ UNCHANGED <<now, mockVars, couponVars, cartVars, queryVars, serverVars>>

\* addPayment up to the end of `await this.findById(orderId)` and the push
AddPaymentRead(id, payment) ==
  /\ Len(paymentCalls) < MaxCalls
  /\ paymentCalls' = Append(paymentCalls,
       IF id \in DOMAIN orders
         THEN [orderId |-> id, payment |-> payment, phase |-> "read",
               payments |-> LocalPayments(orders[id], payment)]
         ELSE [orderId |-> id, payment |-> payment, phase |-> "failed"])
  /\ UNCHANGED <<now, orders, mockVars, couponVars, cartVars, queryVars, serverVars>>

\* the rest of addPayment: this.update(orderId, { payments })
AddPaymentWrite(k) ==
  /\ k \in DOMAIN paymentCalls
  /\ paymentCalls[k].phase = "read"
  /\ paymentCalls[k].orderId \in DOMAIN orders
  /\ orders' = [orders EXCEPT ![paymentCalls[k].orderId] =
                  Updated(@, [payments |-> paymentCalls[k].payments], now)]
  /\ paymentCalls' = [paymentCalls EXCEPT ![k] =
                        [orderId |-> @.orderId, payment |-> @.payment, phase |-> "done"]]
  /\ UNCHANGED <<now, mockVars, couponVars, cartVars, queryVars, serverVars>>

\* order data as the route passes it, and order data that carries a status
PaymentOrderData ==
  { [items |-> BurgerWithBacon, channel |-> "dine_in", tableId |-> "table-01"],
    [items |-> BurgerWithBacon, channel |-> "takeaway", status |-> "draft"] }

\* SpecPayments: orders mutated by calls that run one at a time
NextPayments ==
  \/ \E id \in OrderIds, d \in PaymentOrderData : CreateOrder(id, d, 1000)
  \/ \E id \in OrderIds, s \in {"ready", "closed"} : UpdateStatus(id, s)
  \/ \E id \in OrderIds : Cancel(id, <<>>)
  \/ \E id \in OrderIds, p \in Payments : AddPayment(id, p)

SpecPayments == Init /\ [][NextPayments]_vars

\* SpecConcurrentPayments: addPayment calls that overlap
NextConcurrentPayments ==
  \/ \E id \in OrderIds, d \in PaymentOrderData : CreateOrder(id, d, 1000)
  \/ \E id \in OrderIds, p \in Payments : AddPaymentRead(id, p)
  \/ \E k \in 1..MaxCalls : AddPaymentWrite(k)

SpecConcurrentPayments == Init /\ [][NextConcurrentPayments]_vars

-----------------------------------------------------------------------------
(* The store's queries: where, orderBy, count, limit, get *)

\* document ids in the store's ascending order of ids
DocIds == <<"order-a", "order-b", "order-c", "prod-a", "prod-b", "prod-c">>

DocIdRank(id) == CHOOSE i \in DOMAIN DocIds : DocIds[i] = id

\* where(field, op, value): a document without the field never matches
Satisfies(doc, filter) ==
  /\ filter.field \in DOMAIN doc
  /\ CASE filter.op = "==" -> doc[filter.field] = filter.value
       [] filter.op = ">=" -> doc[filter.field] >= filter.value
       [] filter.op = "<=" -> doc[filter.field] <= filter.value
       [] filter.op = "<"  -> doc[filter.field] < filter.value
       [] filter.op = "in" -> doc[filter.field] \in filter.value

\* orderBy(field, direction): by the field's value, then by document id, both
\* in the direction asked
Precedes(coll, a, b, field, direction) ==
  IF direction = "asc"
    THEN \/ coll[a][field] < coll[b][field]
         \/ coll[a][field] = coll[b][field] /\ DocIdRank(a) < DocIdRank(b)
    ELSE \/ coll[a][field] > coll[b][field]
         \/ coll[a][field] = coll[b][field] /\ DocIdRank(a) > DocIdRank(b)

RECURSIVE SortedIds(_, _, _, _)
SortedIds(coll, ids, field, direction) ==
  IF ids = {} THEN <<>>
  ELSE LET first == CHOOSE x \in ids :
                      \A y \in ids \ {x} : Precedes(coll, x, y, field, direction)
       IN <<first>> \o SortedIds(coll, ids \ {first}, field, direction)

\* the ids a query with these filters and this orderBy selects, in order: a
\* document without the orderBy field is not part of the result
QueryIds(coll, filters, field, direction) ==
  SortedIds(coll,
            { id \in DOMAIN coll :
                /\ \A f \in filters : Satisfies(coll[id], f)
                /\ field \in DOMAIN coll[id] },
            field, direction)

\* query.limit(n)
Limit(ids, n) == SubSeq(ids, 1, IF n < Len(ids) THEN n ELSE Len(ids))

\* Array.prototype.slice(start)
Slice(xs, start) == SubSeq(xs, start + 1, Len(xs))

\* BaseRepository.transformDocument, transformSnapshot
TransformDocument(coll, id) == coll[id] @@ [id |-> id]

TransformSnapshot(coll, ids) == [i \in DOMAIN ids |-> TransformDocument(coll, ids[i])]

\* Math.ceil(total / limit): for the counts of a collection the quotient of
\* the two doubles is an integer exactly when limit divides total
CeilDiv(total, limit) == (total + limit - 1) \div limit

\* PaginationSchema: the defaults of page, limit and sortOrder
PaginationSchema(raw) ==
  raw @@ [page |-> 1, limit |-> 20, sortOrder |-> "desc"]

\* the page without the client-side slice
PageIdsWithoutSlice(sorted, page, limit) == Limit(sorted, (page - 1) * limit + limit)

\* "Apply pagination": the ids of the page, on the offset > 0 and offset = 0 path
PageIds(sorted, page, limit) ==
  LET offset == (page - 1) * limit
  IN IF offset > 0
       THEN Slice(Limit(sorted, offset + limit), offset)
       ELSE Limit(sorted, limit)

-----------------------------------------------------------------------------
(* OrderRepository.findWithQuery *)

Truthy1(q, field) == field \in DOMAIN q /\ q[field] # ""

\* "Apply filters"
OrderFilters(q) ==
  { [field |-> f, op |-> "==", value |-> q[f]]
      : f \in { g \in {"status", "channel", "tableId"} : Truthy1(q, g) } }
  \cup (IF Truthy1(q, "dateFrom")
          THEN {[field |-> "createdAt", op |-> ">=", value |-> q.dateFrom]} ELSE {})
  \cup (IF Truthy1(q, "dateTo")
          THEN {[field |-> "createdAt", op |-> "<=", value |-> q.dateTo]} ELSE {})

\* queryParams.sortBy || fallback
SortField(q, fallback) == IF Truthy1(q, "sortBy") THEN q.sortBy ELSE fallback

OrderFindWithQuery(coll, q) ==
  LET sorted == QueryIds(coll, OrderFilters(q), SortField(q, "createdAt"), q.sortOrder)
      total  == Len(sorted)
  IN [orders      |-> TransformSnapshot(coll, PageIds(sorted, q.page, q.limit)),
      total       |-> total,
      totalPages  |-> CeilDiv(total, q.limit),
      currentPage |-> q.page]

\* a response whose hasNext is also true on the last page
paginatedResponseNextOnLastPage(data, pagination) ==
  [status |-> 200, success |-> TRUE, data |-> data,
   pagination |-> [hasNext |-> pagination.page <= pagination.totalPages,
                   hasPrev |-> pagination.page > 1] @@ pagination]

\* paginatedResponse(res, data, pagination)
paginatedResponse(data, pagination) ==
  [status |-> 200, success |-> TRUE, data |-> data,
   pagination |-> [hasNext |-> pagination.page < pagination.totalPages,
                   hasPrev |-> pagination.page > 1] @@ pagination]

\* GET /:restaurantId/orders: validate({ query: OrderQuerySchema }),
\* findWithQuery, paginatedResponse
GetOrders(raw) ==
  /\ listing' =
       LET queryParams == PaginationSchema(raw)
           result      == OrderFindWithQuery(orders, queryParams)
       IN [called |-> TRUE, raw |-> raw, query |-> queryParams, result |-> result,
           response |-> paginatedResponse(result.orders,
                                          [page |-> result.currentPage,
                                           limit |-> queryParams.limit,
                                           total |-> result.total,
                                           totalPages |-> result.totalPages])]
  /\ UNCHANGED <<now, orders, mockVars, couponVars, cartVars, paymentCalls,
                 analytics, products, productListing, serverVars>>

\* optional fields of a request's query string
Optional(field, values) == {Empty} \cup { field :> v : v \in values }

RawOrderQueries ==
  { a @@ b @@ c @@ d @@ e :
      a \in Optional("status", {"placed"}),
      b \in Optional("sortBy", {"closedAt"}),
      c \in Optional("sortOrder", {"asc"}),
      d \in Optional("page", 1..MaxPage),
      e \in Optional("limit", 1..MaxLimit) }

\* orders as createOrder persists them, some of them closed later
QueryOrderDocs ==
  LET delivery == [items |-> BurgerWithBacon, channel |-> "delivery"]
      dineIn   == [items |-> BurgerWithBacon, channel |-> "dine_in", tableId |-> "table-01"]
  IN { Created(NewOrder(delivery, 1000), 0),
       Created(NewOrder(dineIn, 1000), 0),
       Created(NewOrder(dineIn, 9999), 1),
       Updated(Created(NewOrder(delivery, 1000), 1), StatusUpdates("closed", 2), 2),
       Updated(Created(NewOrder(dineIn, 1000), 0), StatusUpdates("closed", 1), 1) }

QueryOrderIds == {"order-a", "order-b", "order-c"}

\* every collection of documents with ids among `ids`
Collections(ids, docs) ==
  UNION { [present -> docs] : present \in SUBSET ids }

InitQuery ==
  /\ now = 2
  /\ orders \in Collections(QueryOrderIds, QueryOrderDocs)
  /\ mockOrders = <<>>
  /\ orderIdCounter = 1000
  /\ mockTimers = <<>>
  /\ coupons = <<>>
  /\ validation = NoValidation
  /\ cart = initialState
  /\ couponRequest = NoRequest
  /\ paymentCalls = NoCalls
  /\ listing = NoListing
  /\ analytics = NoListing
  /\ products = Empty
  /\ productListing = NoListing
  /\ attention = NoListing
  /\ orderRequest = NoListing
  /\ requests = Empty
  /\ responses = <<>>
  /\ settings = Empty
  /\ settingsCalls = <<>>

NextQuery == \E raw \in RawOrderQueries : GetOrders(raw)

SpecQuery == InitQuery /\ [][NextQuery]_vars

-----------------------------------------------------------------------------
(* OrderRepository.getAnalytics *)

\* the ids executeQuery returns: by createdAt when a date filter is set,
\* else by document id
AnalyticsIds(coll, filters) ==
  IF filters # {}
    THEN QueryIds(coll, filters, "createdAt", "asc")
    ELSE SortedIds([id \in DOMAIN coll |-> [rank |-> 0]], DOMAIN coll, "rank", "asc")

\* a date argument is <<>> when omitted, <<t>> when given
DateFilters(startDate, endDate) ==
  (IF startDate # <<>>
     THEN {[field |-> "createdAt", op |-> ">=", value |-> startDate[1]]} ELSE {})
  \cup (IF endDate # <<>>
          THEN {[field |-> "createdAt", op |-> "<=", value |-> endDate[1]]} ELSE {})

\* counters that are never incremented
IncrementNothing(counts, key) == counts

\* counts[key]++: on a key the object lacks, undefined + 1 is NaN
Increment(counts, key) ==
  IF key \in DOMAIN counts
    THEN [counts EXCEPT ![key] = @ + 1]
    ELSE (key :> "NaN") @@ counts

RECURSIVE CountBy(_, _, _)
CountBy(docs, field, counts) ==
  IF docs = <<>> THEN counts
  ELSE CountBy(Tail(docs), field, Increment(counts, Head(docs)[field]))

\* the items of the orders in the order forEach visits them
RECURSIVE AllItems(_)
AllItems(docs) == IF docs = <<>> THEN <<>> ELSE Head(docs).items \o AllItems(Tail(docs))

\* productStats after the scan: its keys in insertion order with their stats
\* one item of the scan: productStats[item.productId] is created when
\* missing, then its quantity and revenue grow
ProductStatsItem(item, stats) ==
  LET at   == { i \in DOMAIN stats : stats[i].productId = item.productId }
      init == IF at = {}
                THEN Append(stats, [productId |-> item.productId, name |-> item.name,
                                    quantity |-> 0, revenue |-> 0])
                ELSE stats
      k    == CHOOSE i \in DOMAIN init : init[i].productId = item.productId
  IN [init EXCEPT ![k].quantity = @ + item.qty,
                  ![k].revenue  = @ + item.unitPrice * item.qty]

\* productStats after the scan: its keys in insertion order with their
\* stats; the object never loses a key
RECURSIVE ProductStats(_, _)
ProductStats(items, stats) ==
  IF items = <<>> THEN stats
  ELSE LET next == ProductStatsItem(Head(items), stats)
       IN CASE Len(next) >= Len(stats) -> ProductStats(Tail(items), next)

\* the keys of the model that are array indices ("0", "1", ...), with their values
ArrayIndices == [k \in {"2", "10"} |-> IF k = "2" THEN 2 ELSE 10]

\* Object.entries: own keys that are array indices first, in ascending
\* numeric order, then the other keys in insertion order
RECURSIVE InsertByIndex(_, _)
InsertByIndex(sorted, entry) ==
  IF sorted = <<>> THEN <<entry>>
  ELSE IF ArrayIndices[entry.productId] < ArrayIndices[Head(sorted).productId]
    THEN <<entry>> \o sorted
    ELSE <<Head(sorted)>> \o InsertByIndex(Tail(sorted), entry)

RECURSIVE SortByIndex(_)
SortByIndex(entries) ==
  IF entries = <<>> THEN <<>>
  ELSE InsertByIndex(SortByIndex(SubSeq(entries, 1, Len(entries) - 1)), entries[Len(entries)])

ObjectEntries(stats) ==
  SortByIndex(SelectSeq(stats, LAMBDA e : e.productId \in DOMAIN ArrayIndices))
  \o SelectSeq(stats, LAMBDA e : e.productId \notin DOMAIN ArrayIndices)

\* Array.prototype.sort((a, b) => b.revenue - a.revenue): stable
RECURSIVE InsertByRevenue(_, _)
InsertByRevenue(sorted, entry) ==
  IF sorted = <<>> THEN <<entry>>
  ELSE IF entry.revenue > sorted[Len(sorted)].revenue
    THEN Append(InsertByRevenue(SubSeq(sorted, 1, Len(sorted) - 1), entry), sorted[Len(sorted)])
    ELSE Append(sorted, entry)

RECURSIVE SortByRevenue(_)
SortByRevenue(entries) ==
  IF entries = <<>> THEN <<>>
  ELSE InsertByRevenue(SortByRevenue(SubSeq(entries, 1, Len(entries) - 1)),
                       entries[Len(entries)])

\* .slice(0, 10)
TopTen(entries) == SubSeq(entries, 1, IF Len(entries) < 10 THEN Len(entries) ELSE 10)

RECURSIVE TotalRevenue(_)
TotalRevenue(docs) ==
  IF docs = <<>> THEN 0 ELSE Head(docs).amounts.total + TotalRevenue(Tail(docs))

Analytics(docs) ==
  [totalOrders       |-> Len(docs),
   totalRevenue      |-> TotalRevenue(docs),
   averageOrderValue |-> IF Len(docs) > 0 /\ TotalRevenue(docs) > 0
                           THEN DoubleDiv(TotalRevenue(docs), Len(docs))
                           ELSE [m |-> <<>>, e |-> 0],
   ordersByStatus    |-> CountBy(docs, "status", [st \in OrderStatus |-> 0]),
   ordersByChannel   |-> CountBy(docs, "channel", [c \in OrderChannel |-> 0]),
   topProducts       |-> TopTen(SortByRevenue(ObjectEntries(ProductStats(AllItems(docs), <<>>))))]

GetAnalytics(startDate, endDate) ==
  /\ analytics' =
       [called |-> TRUE, startDate |-> startDate, endDate |-> endDate,
        scanned |-> AnalyticsIds(orders, DateFilters(startDate, endDate)),
        result |-> Analytics(TransformSnapshot(orders,
                     AnalyticsIds(orders, DateFilters(startDate, endDate))))]
  /\ UNCHANGED <<now, orders, mockVars, couponVars, cartVars, paymentCalls,
                 listing, products, productListing, serverVars>>

Item(productId, name, unitPrice, qty) ==
  [productId |-> productId, name |-> name, unitPrice |-> unitPrice, qty |-> qty,
   options |-> <<>>]

\* an order of eleven products, of revenues 1100 down to 100
ElevenItems ==
  [i \in 1..11 |->
     Item(<<"p-01", "p-02", "p-03", "p-04", "p-05", "p-06", "p-07", "p-08", "p-09",
            "p-10", "p-11">>[i], "Prato", (12 - i) * 100, 1)]

AnalyticsOrderDocs ==
  LET order(items, channel) == Created(NewOrder([items |-> items, channel |-> channel], 1000), 0)
      later(items, channel) == Created(NewOrder([items |-> items, channel |-> channel], 1000), 1)
  IN { order(BurgerWithBacon, "delivery"),
       later(<<Item("mint-01", "Bala de Menta", 500, 2), Item("candy-01", "Doce", 1000, 1)>>,
             "takeaway"),
       order(<<Item("10", "Suco", 500, 2), Item("2", "Agua", 1000, 1)>>, "dine_in"),
       Updated(later(<<Item("candy-01", "Doce", 1000, 2), Item("mint-01", "Bala de Menta", 500, 2)>>,
                     "dine_in"),
               StatusUpdates("closed", 2), 2),
       Updated(order(ElevenItems, "takeaway"), CancelUpdates(<<>>, 1), 1) }

InitAnalytics ==
  /\ now = 2
  /\ orders \in Collections(QueryOrderIds, AnalyticsOrderDocs)
  /\ mockOrders = <<>>
  /\ orderIdCounter = 1000
  /\ mockTimers = <<>>
  /\ coupons = <<>>
  /\ validation = NoValidation
  /\ cart = initialState
  /\ couponRequest = NoRequest
  /\ paymentCalls = NoCalls
  /\ listing = NoListing
  /\ analytics = NoListing
  /\ products = Empty
  /\ productListing = NoListing
  /\ attention = NoListing
  /\ orderRequest = NoListing
  /\ requests = Empty
  /\ responses = <<>>
  /\ settings = Empty
  /\ settingsCalls = <<>>

NextAnalytics ==
  \E startDate \in {<<>>, <<1>>}, endDate \in {<<>>, <<0>>, <<1>>} :
    GetAnalytics(startDate, endDate)

SpecAnalytics == InitAnalytics /\ [][NextAnalytics]_vars

-----------------------------------------------------------------------------
(* ProductRepository.findWithQuery *)

\* A text that is searched is the sequence of its characters.
UpperCaseLetters == <<"A", "B", "C", "O", "P">>
LowerCaseLetters == <<"a", "b", "c", "o", "p">>

\* toLowerCase that leaves every character as it is
SameText(text) == text

\* String.prototype.toLowerCase
ToLowerCase(text) ==
  [i \in DOMAIN text |->
     IF \E k \in DOMAIN UpperCaseLetters : UpperCaseLetters[k] = text[i]
       THEN LowerCaseLetters[CHOOSE k \in DOMAIN UpperCaseLetters : UpperCaseLetters[k] = text[i]]
       ELSE text[i]]

\* String.prototype.includes
Includes(text, term) ==
  \E i \in 0..(Len(text) - Len(term)) : SubSeq(text, i + 1, i + Len(term)) = term

\* ProductQuerySchema: PaginationSchema and available: val => val === 'true'
ProductQuerySchema(raw) ==
  (IF "available" \in DOMAIN raw THEN [available |-> raw.available = "true"] ELSE Empty)
  @@ PaginationSchema(raw)

\* "Apply filters": category when truthy, available when not undefined
ProductFilters(q) ==
  (IF Truthy1(q, "category")
     THEN {[field |-> "category", op |-> "==", value |-> q.category]} ELSE {})
  \cup (IF "available" \in DOMAIN q
          THEN {[field |-> "available", op |-> "==", value |-> q.available]} ELSE {})

\* "Apply search filter in memory"
SearchFilter(found, q) ==
  IF "search" \in DOMAIN q /\ q.search # <<>>
    THEN SelectSeq(found, LAMBDA product :
           \/ Includes(ToLowerCase(product.name), ToLowerCase(q.search))
           \/ Includes(ToLowerCase(product.description), ToLowerCase(q.search)))
    ELSE found

ProductFindWithQuery(coll, q) ==
  LET sorted == QueryIds(coll, ProductFilters(q), SortField(q, "position"), q.sortOrder)
      total  == Len(sorted)
  IN [products    |-> SearchFilter(TransformSnapshot(coll, PageIds(sorted, q.page, q.limit)), q),
      total       |-> total,
      totalPages  |-> CeilDiv(total, q.limit),
      currentPage |-> q.page]

\* ProductController.getAllProducts behind validate({ query: ProductQuerySchema })
GetAllProducts(raw) ==
  /\ productListing' = [called |-> TRUE, raw |-> raw, query |-> ProductQuerySchema(raw),
                        result |-> ProductFindWithQuery(products, ProductQuerySchema(raw))]
  /\ UNCHANGED <<now, orders, mockVars, couponVars, cartVars, paymentCalls,
                 listing, analytics, products, serverVars>>

RawProductQueries ==
  { a @@ b @@ c @@ d @@ e :
      a \in Optional("available", {"true"}),
      b \in Optional("search", {<<>>, <<"p", "A">>}),
      c \in Optional("sortOrder", {"asc"}),
      d \in Optional("page", 1..MaxPage),
      e \in Optional("limit", 1..MaxLimit) }

Product(name, description, price, available, position) ==
  [name |-> name, description |-> description, category |-> "padaria", price |-> price,
   available |-> available, position |-> position]

\* CreateProductSchema, stamped by BaseRepository.create
ProductDocs ==
  { Created(Product(<<"P", "a", "o">>, <<"d", "o", "c", "e">>, 500, TRUE, 0), 0),
    Created(Product(<<"B", "o", "l", "o">>, <<"c", "o", "m", " ", "P", "A", "O">>, 900, TRUE, 1), 0),
    Created(Product(<<"C", "h", "a">>, <<>>, 300, FALSE, 1), 1) }

ProductIds == {"prod-a", "prod-b", "prod-c"}

InitCatalog ==
  /\ now = 2
  /\ orders = Empty
  /\ mockOrders = <<>>
  /\ orderIdCounter = 1000
  /\ mockTimers = <<>>
  /\ coupons = <<>>
  /\ validation = NoValidation
  /\ cart = initialState
  /\ couponRequest = NoRequest
  /\ paymentCalls = NoCalls
  /\ listing = NoListing
  /\ analytics = NoListing
  /\ products \in Collections(ProductIds, ProductDocs)
  /\ productListing = NoListing
  /\ attention = NoListing
  /\ orderRequest = NoListing
  /\ requests = Empty
  /\ responses = <<>>
  /\ settings = Empty
  /\ settingsCalls = <<>>

NextCatalog == \E raw \in RawProductQueries : GetAllProducts(raw)

SpecCatalog == InitCatalog /\ [][NextCatalog]_vars

-----------------------------------------------------------------------------
(* OrderRepository.getOrdersRequiringAttention; the clock counts minutes *)

\* minutesThreshold: number = 30; the argument is <<>> when omitted
MinutesThreshold(arg) == IF arg = <<>> THEN 30 ELSE arg[1]

\* thresholdTime.setMinutes(thresholdTime.getMinutes() - minutesThreshold)
ThresholdTime(t, minutesThreshold) == t - minutesThreshold

\* the filters with the threshold time itself included
AttentionFiltersInclusive(thresholdTime) ==
  { [field |-> "status", op |-> "in", value |-> {"placed", "confirmed"}],
    [field |-> "createdAt", op |-> "<=", value |-> thresholdTime] }

\* where('status', 'in', ['placed', 'confirmed']), where('createdAt', '<', thresholdTime)
AttentionFilters(thresholdTime) ==
  { [field |-> "status", op |-> "in", value |-> {"placed", "confirmed"}],
    [field |-> "createdAt", op |-> "<", value |-> thresholdTime] }

GetOrdersRequiringAttention(arg) ==
  LET thresholdTime == ThresholdTime(now, MinutesThreshold(arg))
      found == QueryIds(orders, AttentionFilters(thresholdTime), "createdAt", "asc")
  IN /\ attention' = [called |-> TRUE, arg |-> arg, at |-> now,
                      result |-> TransformSnapshot(orders, found)]
     /\ UNCHANGED <<now, orders, mockVars, couponVars, cartVars, paymentCalls, queryVars,
                    orderRequest, requests, responses, settings, settingsCalls>>

\* the thresholds asked for: the default, one minute, none
ThresholdInputs == {<<>>, <<1>>, <<0>>}

\* the minutes at which the query runs
AttentionTimes == {40, 41}

\* orders created at minutes 9, 10, 39 and 40, some of them moved on later
AttentionOrderDocs ==
  LET delivery == [items |-> BurgerWithBacon, channel |-> "delivery"]
      dineIn   == [items |-> BurgerWithBacon, channel |-> "dine_in", tableId |-> "table-01"]
  IN { Created(NewOrder(delivery, 1000), 9),
       Created(NewOrder(dineIn, 1000), 10),
       Created(NewOrder(delivery, 9999), 39),
       Created(NewOrder(dineIn, 9999), 40),
       Updated(Created(NewOrder(dineIn, 1000), 9), StatusUpdates("confirmed", 12), 12),
       Updated(Created(NewOrder(delivery, 1000), 10), StatusUpdates("confirmed", 39), 39),
       Updated(Created(NewOrder(delivery, 1000), 9), StatusUpdates("ready", 12), 12),
       Updated(Created(NewOrder(dineIn, 1000), 9), CancelUpdates(<<>>, 10), 10) }

InitAttention ==
  /\ now \in AttentionTimes
  /\ orders \in Collections(QueryOrderIds, AttentionOrderDocs)
  /\ mockOrders = <<>>
  /\ orderIdCounter = 1000
  /\ mockTimers = <<>>
  /\ coupons = <<>>
  /\ validation = NoValidation
  /\ cart = initialState
  /\ couponRequest = NoRequest
  /\ paymentCalls = NoCalls
  /\ listing = NoListing
  /\ analytics = NoListing
  /\ products = Empty
  /\ productListing = NoListing
  /\ attention = NoListing
  /\ orderRequest = NoListing
  /\ requests = Empty
  /\ responses = <<>>
  /\ settings = Empty
  /\ settingsCalls = <<>>

NextAttention == \E arg \in ThresholdInputs : GetOrdersRequiringAttention(arg)

SpecAttention == InitAttention /\ [][NextAttention]_vars

-----------------------------------------------------------------------------
(* POST /:restaurantId/orders: validate({ body: CreateOrderSchema }), then   *)
(* createOrder and findById                                                  *)

\* SelectedOptionSchema
ValidOption(option) ==
  /\ {"id", "name", "choice", "price"} \subseteq DOMAIN option
  /\ option.id # "" /\ option.name # "" /\ option.choice # ""
  /\ option.price \in Nat

\* OrderItemSchema: what passes
ValidItem(item) ==
  /\ {"productId", "name", "qty", "unitPrice"} \subseteq DOMAIN item
  /\ item.productId # "" /\ item.name # ""
  /\ item.qty \in Nat \ {0}
  /\ item.unitPrice \in Nat
  /\ "options" \in DOMAIN item =>
       \A i \in DOMAIN item.options : ValidOption(item.options[i])

\* OrderItemSchema: what parse returns, unknown keys stripped and options
\* defaulting to []
ParsedItem(item) ==
  [f \in DOMAIN item \cap {"productId", "name", "qty", "unitPrice", "options", "notes"}
     |-> item[f]]
  @@ [options |-> <<>>]

\* the schema with items: z.array(OrderItemSchema), any length
CreateOrderSchemaAnyItems(body) ==
  IF /\ {"items", "channel"} \subseteq DOMAIN body
     /\ \A i \in DOMAIN body.items : ValidItem(body.items[i])
     /\ body.channel \in OrderChannel
    THEN << [f \in DOMAIN body \cap {"channel", "tableId", "customer"} |-> body[f]]
            @@ [items |-> [i \in DOMAIN body.items |-> ParsedItem(body.items[i])]] >>
    ELSE <<>>

\* CreateOrderSchema.parse(body): <<parsed>>, or <<>> when a ZodError is thrown
CreateOrderSchema(body) ==
  IF /\ {"items", "channel"} \subseteq DOMAIN body
     /\ Len(body.items) >= 1
     /\ \A i \in DOMAIN body.items : ValidItem(body.items[i])
     /\ body.channel \in OrderChannel
    THEN << [f \in DOMAIN body \cap {"channel", "tableId", "customer"} |-> body[f]]
            @@ [items |-> [i \in DOMAIN body.items |-> ParsedItem(body.items[i])]] >>
    ELSE <<>>

\* the handler: a ZodError becomes a ValidationError (400) passed to next and
\* the route's handler does not run; otherwise the order is created, read
\* back and returned with 201
PostOrder(id, body, orderNumber) ==
  LET parsed == CreateOrderSchema(body)
  IN /\ id \notin DOMAIN orders
     /\ IF parsed = <<>>
          THEN /\ orderRequest' = [called |-> TRUE, body |-> body,
                                   status |-> 400, code |-> "VALIDATION_ERROR"]
               /\ UNCHANGED orders
          ELSE /\ orders' = (id :> Created(NewOrder(parsed[1], orderNumber), now)) @@ orders
               /\ orderRequest' = [called |-> TRUE, body |-> body, status |-> 201,
                                   data |-> TransformDocument(orders', id)]
     /\ UNCHANGED <<now, mockVars, couponVars, cartVars, paymentCalls, queryVars,
                    attention, requests, responses, settings, settingsCalls>>

\* item lists a request body carries: none, one that passes, one whose item
\* has no options key, one whose item has quantity 0
RequestItemLists ==
  { <<>>,
    BurgerWithBacon,
    <<[productId |-> "mint-01", name |-> "Bala de Menta", unitPrice |-> 2, qty |-> 1]>>,
    <<[productId |-> "mint-01", name |-> "Bala de Menta", unitPrice |-> 2, qty |-> 0,
       options |-> <<>>]>> }

\* request bodies: each key present or not, a channel outside the enum, a key
\* the schema does not know
RequestBodies ==
  { a @@ b @@ c @@ d :
      a \in Optional("items", RequestItemLists),
      b \in Optional("channel", OrderChannel \cup {"drive_thru"}),
      c \in Optional("tableId", {"table-01"}),
      d \in Optional("status", {"draft"}) }

NextOrders ==
  \/ \E id \in OrderIds, body \in RequestBodies : PostOrder(id, body, 1000)
  \/ \E id \in OrderIds : UpdateStatus(id, "confirmed")

SpecOrders == Init /\ [][NextOrders]_vars

-----------------------------------------------------------------------------
(* MockService.simulateOrderProgression and updateOrderStatus: the timers   *)
(* and what their callbacks do                                              *)

\* const statuses = ['confirmed', 'in_preparation', 'ready', 'served']
statuses == <<"confirmed", "in_preparation", "ready", "served">>

\* Math.random() * 30000 + 10000: the least value and one just below the bound
RandomDelays == {10000, 39999}

RemoveAt(timers, i) == SubSeq(timers, 1, i - 1) \o SubSeq(timers, i + 1, Len(timers))

\* timers that fire in any order
DueInAnyOrder(i) == i \in DOMAIN mockTimers

\* setTimeout: the timer that fires next is one with the earliest due time,
\* and among those the one registered first
Due(i) ==
  /\ i \in DOMAIN mockTimers
  /\ \A j \in DOMAIN mockTimers :
       \/ mockTimers[i].due < mockTimers[j].due
       \/ mockTimers[i].due = mockTimers[j].due /\ i <= j

\* the clock when a timer fires: not before its due time
FiredAt(timer) == IF timer.due > now THEN timer.due ELSE now

\* progressOrder(): if (currentIndex < statuses.length) setTimeout(..., delay)
ProgressOrderTimers(timer, t, delay) ==
  IF timer.currentIndex < Len(statuses)
    THEN << [orderId |-> timer.orderId, callback |-> "advance",
             currentIndex |-> timer.currentIndex, due |-> t + delay] >>
    ELSE <<>>

\* setTimeout(progressOrder, 5000) fires
ProgressOrder(i, delay) ==
  LET timer == mockTimers[i]
      t     == FiredAt(timer)
  IN /\ Due(i)
     /\ timer.callback = "progressOrder"
     /\ now' = t
     /\ mockTimers' = RemoveAt(mockTimers, i) \o ProgressOrderTimers(timer, t, delay)
     /\ UNCHANGED <<orderVars, mockOrders, orderIdCounter, couponVars, cartVars,
                    paymentCalls, queryVars, serverVars>>

\* the timeout callback of progressOrder fires: updateOrderStatus(orderId,
\* statuses[currentIndex]) runs to its await (a timer of 500 ms), then
\* currentIndex++ and progressOrder()
Advance(i, delay) ==
  LET timer == mockTimers[i]
      t     == FiredAt(timer)
      next  == [timer EXCEPT !.currentIndex = @ + 1]
  IN /\ Due(i)
     /\ timer.callback = "advance"
     /\ now' = t
     /\ mockTimers' = RemoveAt(mockTimers, i)
                      \o << [orderId |-> timer.orderId, callback |-> "updateOrderStatus",
                             status |-> statuses[timer.currentIndex + 1], due |-> t + 500] >>
                      \o ProgressOrderTimers(next, t, delay)
     /\ UNCHANGED <<orderVars, mockOrders, orderIdCounter, couponVars, cartVars,
                    paymentCalls, queryVars, serverVars>>

\* updateOrderStatus after its await: the order found is updated in place
MockUpdated(order, status, t) ==
  (IF status = "closed" THEN [closedAt |-> t] ELSE Empty)
  @@ [status |-> status, updatedAt |-> t] @@ order

UpdateOrderStatus(i) ==
  LET timer == mockTimers[i]
      t     == FiredAt(timer)
  IN /\ Due(i)
     /\ timer.callback = "updateOrderStatus"
     /\ now' = t
     /\ mockTimers' = RemoveAt(mockTimers, i)
     /\ mockOrders' = [k \in DOMAIN mockOrders |->
                         IF mockOrders[k].id = timer.orderId
                           THEN MockUpdated(mockOrders[k], timer.status, t)
                           ELSE mockOrders[k]]
     /\ UNCHANGED <<orderVars, orderIdCounter, couponVars, cartVars,
                    paymentCalls, queryVars, serverVars>>

FireTimer ==
  \E i \in DOMAIN mockTimers :
    \/ \E delay \in RandomDelays : ProgressOrder(i, delay)
    \/ \E delay \in RandomDelays : Advance(i, delay)
    \/ UpdateOrderStatus(i)

NextMock ==
  \/ \E d \in MockOrderData : MockCreateOrder(d, 1000)
  \/ FireTimer

\* a registered timer fires: the event loop runs every timer that is due
SpecMock == Init /\ [][NextMock]_vars /\ WF_vars(FireTimer)

-----------------------------------------------------------------------------
(* rateLimitValidation: one middleware instance; the clock counts the units *)
(* of options.windowMs                                                       *)

\* the options the middleware was created with
options == [windowMs |-> 1, maxRequests |-> 2]

\* req.ip || 'unknown'; ip is <<>> when the request has none
Identifier(ip) == IF ip = <<>> \/ ip[1] = "" THEN "unknown" ELSE ip[1]

\* a window that is over as soon as its resetTime is reached
ExpiredAtReset(record, t) == record.resetTime <= t

\* record.resetTime < now
Expired(record, t) == record.resetTime < t

\* "Get or create request record", "Reset if window has passed"
RequestRecord(identifier, t) ==
  IF identifier \notin DOMAIN requests \/ Expired(requests[identifier], t)
    THEN [count |-> 0, resetTime |-> t + options.windowMs]
    ELSE requests[identifier]

\* "Clean up old entries"
CleanUp(map, t) == [key \in { k \in DOMAIN map : ~Expired(map[k], t) } |-> map[key]]

RateLimitValidation(ip) ==
  LET identifier    == Identifier(ip)
      requestRecord == RequestRecord(identifier, now)
      kept          == CleanUp((identifier :> requestRecord) @@ requests, now)
  IN /\ Len(responses) < MaxArrivals
     /\ IF requestRecord.count >= options.maxRequests
          THEN /\ requests' = kept
               /\ responses' = Append(responses, [identifier |-> identifier, at |-> now,
                                                  status |-> 429, next |-> FALSE])
          ELSE /\ requests' = [kept EXCEPT ![identifier].count = @ + 1]
               /\ responses' = Append(responses, [identifier |-> identifier, at |-> now,
                                                  status |-> 0, next |-> TRUE])
     /\ UNCHANGED <<now, orderVars, mockVars, couponVars, cartVars, paymentCalls, queryVars,
                    attention, orderRequest, settings, settingsCalls>>

\* the addresses requests come from: none, and one client's
RequestIps == {<<>>, <<"10.0.0.1">>}

NextRateLimit ==
  \/ \E ip \in RequestIps : RateLimitValidation(ip)
  \/ Tick

SpecRateLimit == Init /\ [][NextRateLimit]_vars

-----------------------------------------------------------------------------
(* SettingsRepository.getSettings, updateSettings *)

\* ids the store hands out for settings documents, in the store's order of ids
SettingsIds == <<"settings-a", "settings-b", "settings-c">>

\* findAll() without orderBy returns the documents in the order of their
\* ids: settings[0] || null, as <<>> or <<id>>
GetSettings ==
  LET present == { i \in DOMAIN SettingsIds : SettingsIds[i] \in DOMAIN settings }
  IN IF present = {} THEN <<>>
     ELSE << SettingsIds[CHOOSE i \in present : \A j \in present : i <= j] >>

\* "Create default settings if none exist": the defaults, then ...updates
defaultSettings(updates) ==
  updates
  @@ [restaurantId |-> RestaurantId,
      delivery |-> [enabled |-> FALSE, feeType |-> "fixed", feeValue |-> 500],
      dineIn   |-> [serviceFeePercent |-> 10],
      pickup   |-> [enabled |-> TRUE],
      whatsapp |-> [enabled |-> FALSE]]

\* updateSettings up to the end of `await this.getSettings()`
UpdateSettingsRead(updates) ==
  /\ Len(settingsCalls) < MaxCalls
  /\ settingsCalls' = Append(settingsCalls,
                             [updates |-> updates, existing |-> GetSettings, phase |-> "read"])
  /\ UNCHANGED <<now, orderVars, mockVars, couponVars, cartVars, paymentCalls, queryVars,
                 attention, orderRequest, requests, responses, settings>>

\* the rest of updateSettings: update(existing.id, updates), or
\* create(defaultSettings) under the id the store picks, newId (an update
\* picks none: newId is then fixed)
UpdateSettingsWrite(k, newId) ==
  /\ k \in DOMAIN settingsCalls
  /\ settingsCalls[k].phase = "read"
  /\ IF settingsCalls[k].existing # <<>>
       THEN LET id == settingsCalls[k].existing[1]
            IN /\ newId = SettingsIds[1]
               /\ id \in DOMAIN settings
               /\ settings' = [settings EXCEPT ![id] =
                                 Updated(@, settingsCalls[k].updates, now)]
       ELSE /\ newId \notin DOMAIN settings
            /\ settings' = (newId :> Created(defaultSettings(settingsCalls[k].updates), now))
                           @@ settings
  /\ settingsCalls' = [settingsCalls EXCEPT ![k].phase = "done"]
  /\ UNCHANGED <<now, orderVars, mockVars, couponVars, cartVars, paymentCalls, queryVars,
                 attention, orderRequest, requests, responses>>

\* Partial<Settings>: the updates a call carries
SettingsUpdates ==
  { [whatsapp |-> [enabled |-> TRUE]],
    [pickup |-> [enabled |-> FALSE]],
    [dineIn |-> [serviceFeePercent |-> 12]] }

NextSettings ==
  \/ \E updates \in SettingsUpdates : UpdateSettingsRead(updates)
  \/ \E k \in 1..MaxCalls, i \in DOMAIN SettingsIds : UpdateSettingsWrite(k, SettingsIds[i])
  \/ Tick

SpecSettings == Init /\ [][NextSettings]_vars

-----------------------------------------------------------------------------
(* Properties of the order life cycle (Spec) *)

TerminalStatuses == {"closed", "canceled"}

\* C1: closed and canceled are terminal: once an order's status is closed or
\* canceled, no later updateStatus or cancel changes its status.
TerminalStatusIsFinal ==
  [][\A id \in DOMAIN orders :
       orders[id].status \in TerminalStatuses => orders'[id].status = orders[id].status]_vars

\* C2: every order whose status is closed or canceled has closedAt set,
\* whichever operation made the transition.
TerminalOrderHasClosedAt ==
  \A id \in DOMAIN orders :
    orders[id].status \in TerminalStatuses => "closedAt" \in DOMAIN orders[id]

\* C3: closedAt is written exactly once: once an order has a closedAt value,
\* no later operation changes it.
ClosedAtWrittenOnce ==
  [][\A id \in DOMAIN orders :
       "closedAt" \in DOMAIN orders[id]
         => /\ "closedAt" \in DOMAIN orders'[id]
            /\ orders'[id].closedAt = orders[id].closedAt]_vars

-----------------------------------------------------------------------------
(* Properties of the amounts of created orders (SpecPricing) *)

LineAmount(item) ==
  item.qty * (item.unitPrice
              + SetSum([j \in DOMAIN item.options |-> item.options[j].price],
                       DOMAIN item.options))

SumOfLines(items) ==
  SetSum([i \in DOMAIN items |-> LineAmount(items[i])], DOMAIN items)

\* a tenth of n, to the nearest integer, halves up
RoundedTenth(n) == (n + 5) \div 10

\* the value of a fee, an absent fee counting as 0
FeeValue(fees, k) == IF k \in DOMAIN fees THEN fees[k] ELSE 0

\* C4: the persisted amounts.subtotal of every created order is the sum over
\* its items of qty * (unitPrice + sum of the option prices), a natural number.
SubtotalIsSumOfLines ==
  \A id \in DOMAIN orders :
    /\ orders[id].amounts.subtotal = SumOfLines(orders[id].items)
    /\ orders[id].amounts.subtotal \in Nat

SubtotalWitness ==
  \E id \in DOMAIN orders :
    /\ Len(orders[id].items) = 2
    /\ \E i \in DOMAIN orders[id].items :
         orders[id].items[i].qty = 2 /\ Len(orders[id].items[i].options) = 2

FeesFollowChannel(channel, amounts, flatDeliveryFee) ==
  LET fees == amounts.fees
  IN /\ channel = "dine_in" =>
          /\ FeeValue(fees, "service") = RoundedTenth(amounts.subtotal)
          /\ FeeValue(fees, "delivery") = 0
     /\ channel = "takeaway" =>
          /\ FeeValue(fees, "service") = 0
          /\ FeeValue(fees, "delivery") = 0
     /\ channel = "delivery" =>
          /\ "delivery" \in DOMAIN fees
          /\ fees.delivery = flatDeliveryFee
          /\ FeeValue(fees, "service") = 0

TotalIsSubtotalPlusFees ==
  \A id \in DOMAIN orders :
    LET a == orders[id].amounts
    IN /\ a.discounts = 0
       /\ a.total = a.subtotal + FeeValue(a.fees, "service")
                    + FeeValue(a.fees, "delivery") - a.discounts
       /\ (orders[id].items = BurgerWithBacon /\ orders[id].channel = "dine_in")
            => (a.subtotal = 3480 /\ a.fees = [service |-> 348] /\ a.total = 3828)

TotalWitness ==
  \E id \in DOMAIN orders :
    orders[id].items = BurgerWithBacon /\ orders[id].channel = "dine_in"


-----------------------------------------------------------------------------
(* Properties of coupon validation (SpecCoupon) *)

\* the outcome a result of validateCoupon stands for
Outcome(result) ==
  IF result.valid THEN "valid"
  ELSE CASE result.error.message = "Coupon not found"        -> "NOT_FOUND"
         [] result.error.message = "Coupon is not active"    -> "INACTIVE"
         [] result.error.message = "Coupon is not yet valid" -> "NOT_YET_VALID"
         [] result.error.message = "Coupon has expired"      -> "EXPIRED"
         [] result.error.message = "Minimum order value of $ required" -> "BELOW_MINIMUM"
         [] OTHER -> "ERROR"

SixOutcomes == {"NOT_FOUND", "INACTIVE", "NOT_YET_VALID", "EXPIRED", "BELOW_MINIMUM", "valid"}

\* the coupons of the store with the validated code, upper-cased
Matching == SelectSeq(coupons, LAMBDA c : c.code = ToUpperCase(validation.code))

\* the checks of the claim, in its order, on the first matching coupon
FirstFailingCheck ==
  IF Matching = <<>> THEN "NOT_FOUND"
  ELSE LET c == Matching[1]
       IN CASE ~c.active -> "INACTIVE"
            [] c.active /\ validation.at < c.validFrom -> "NOT_YET_VALID"
            [] c.active /\ validation.at >= c.validFrom /\ validation.at > c.validTo -> "EXPIRED"
            [] c.active /\ validation.at >= c.validFrom /\ validation.at <= c.validTo
                 /\ "minSubtotal" \in DOMAIN c /\ validation.subtotal < c.minSubtotal
                 -> "BELOW_MINIMUM"
            [] OTHER -> "valid"

Looked == validation.called /\ ~validation.lookupFailed

\* C7: when the lookup answers, validateCoupon reports the first failing check
\* in the order not-found, inactive, not-yet-valid, expired, below-minimum: an
\* inactive and expired coupon is INACTIVE, an expired one below the minimum
\* is EXPIRED, and a coupon at now = validFrom or now = validTo with
\* subtotal = minSubtotal is valid.
ValidateCouponReportsFirstFailingCheck ==
  Looked =>
    /\ Outcome(validation.result) = FirstFailingCheck
    /\ Matching # <<>> =>
         LET c == Matching[1]
         IN /\ (~c.active /\ validation.at > c.validTo)
                 => Outcome(validation.result) = "INACTIVE"
            /\ (c.active /\ validation.at >= c.validFrom /\ validation.at > c.validTo
                  /\ "minSubtotal" \in DOMAIN c /\ validation.subtotal < c.minSubtotal)
                 => Outcome(validation.result) = "EXPIRED"
            /\ (c.active /\ validation.at \in {c.validFrom, c.validTo}
                  /\ "minSubtotal" \in DOMAIN c /\ validation.subtotal = c.minSubtotal)
                 => /\ Outcome(validation.result) = "valid"
                    /\ validation.result.coupon = c

\* C7 witness: an inactive coupon validated after its validTo is INACTIVE
InactiveAndExpiredWitness ==
  /\ Looked
  /\ Matching # <<>>
  /\ ~Matching[1].active
  /\ validation.at > Matching[1].validTo
  /\ Outcome(validation.result) = "INACTIVE"

-----------------------------------------------------------------------------
(* Properties of the cart's discount (SpecDiscount, SpecCart) *)

\* n / d rounded to the nearest integer, halves up, for n >= 0 and d > 0
HalfUp(n, d) == (2 * n + d) \div (2 * d)

\* type and value of the coupon with this code
CouponTerms(code) ==
  LET known == ServiceCoupons \cup { demoCoupons[i] : i \in DOMAIN demoCoupons }
  IN CHOOSE c \in known : c.code = code

\* a step of handleApplyCoupon that applies a coupon
AppliesCoupon ==
  /\ couponRequest.pending # <<>>
  /\ couponRequest'.pending = Tail(couponRequest.pending)
  /\ couponRequest'.toast.title = "Cupom aplicado!"
  /\ cart' # cart

DiscountNeverExceedsSubtotal ==
  /\ cart.discounts <= cart.subtotal
  /\ cart.total >= 0

-----------------------------------------------------------------------------
(* Properties of payments and of the frame of order mutations *)

\* the payments an order records, none when the field is absent
RecordedPayments(doc) == IF "payments" \in DOMAIN doc THEN doc.payments ELSE <<>>

\* how often payment p occurs in an order's payments
Occurrences(doc, p) ==
  Cardinality({ i \in DOMAIN RecordedPayments(doc) : RecordedPayments(doc)[i] = p })

\* the calls of addPayment on order id with payment p that completed
Completed(id, p) ==
  { k \in DOMAIN paymentCalls :
      /\ paymentCalls[k].phase = "done"
      /\ paymentCalls[k].orderId = id
      /\ paymentCalls[k].payment = p }

\* C13 as stated: whatever the interleaving of the reads and writes of
\* addPayment calls, the payments of an order hold the payment of every call
\* on it that completed
NoPaymentLost ==
  \A id \in DOMAIN orders, p \in Payments :
    Cardinality(Completed(id, p)) <= Occurrences(orders[id], p)

\* C14: an addPayment that runs alone sets payments to the previous sequence
\* (empty when absent) followed by the new payment, and updateStatus and
\* cancel leave payments as they are: nothing recorded is removed, changed
\* or reordered.
PaymentsAppendOnly ==
  [][\A id \in DOMAIN orders :
       /\ id \in DOMAIN orders'
       /\ LET old   == RecordedPayments(orders[id])
              new   == RecordedPayments(orders'[id])
              added == /\ Len(paymentCalls') = Len(paymentCalls) + 1
                       /\ paymentCalls'[Len(paymentCalls')].orderId = id
                       /\ paymentCalls'[Len(paymentCalls')].phase = "done"
          IN /\ added => new = Append(old, paymentCalls'[Len(paymentCalls')].payment)
             /\ ~added => new = old]_vars

\* C14 witness: two payments recorded in call order on an order since closed
TwoPaymentsWitness ==
  \E id \in DOMAIN orders :
    /\ Len(paymentCalls) = 2
    /\ \A k \in {1, 2} : paymentCalls[k].orderId = id /\ paymentCalls[k].phase = "done"
    /\ paymentCalls[1].payment # paymentCalls[2].payment
    /\ RecordedPayments(orders[id]) = <<paymentCalls[1].payment, paymentCalls[2].payment>>
    /\ orders[id].status = "closed"

\* C15: the order createOrder persists has status placed, also when the
\* caller's order data carries a status of its own
CreatedOrderIsPlaced ==
  [][\A id \in DOMAIN orders' \ DOMAIN orders :
       /\ orders'[id].status = "placed"
       /\ orders'[id].status # "draft"]_vars

\* C15 witness: the order made from the data that carries status draft
\* (the takeaway order), just created and placed
DraftDataPlacedWitness ==
  \E id \in DOMAIN orders :
    /\ orders[id].channel = "takeaway"
    /\ orders[id].status = "placed"
    /\ "closedAt" \notin DOMAIN orders[id]
    /\ "payments" \notin DOMAIN orders[id]

FrameFields == {"channel", "items", "amounts", "orderNumber"}

\* C16: updateStatus, cancel and addPayment keep every order in the
\* collection and leave its channel, items, amounts and orderNumber as they
\* were.
OrderMutationsKeepFrame ==
  [][\A id \in DOMAIN orders :
       /\ id \in DOMAIN orders'
       /\ \A f \in FrameFields :
            /\ f \in DOMAIN orders[id]
            /\ f \in DOMAIN orders'[id]
            /\ orders'[id][f] = orders[id][f]]_vars

\* C16 witness: a dine-in order with a payment, served and then canceled
MutatedOrderWitness ==
  \E id \in DOMAIN orders :
    /\ orders[id].status = "canceled"
    /\ RecordedPayments(orders[id]) # <<>>
    /\ orders[id].channel = "dine_in"
    /\ orders[id].amounts.total = 3828

-----------------------------------------------------------------------------
(* Properties of order listings (SpecQuery) *)

\* the orders that match the filters the caller supplied
MatchingOrders ==
  { id \in DOMAIN orders :
      \A f \in {"status", "channel", "tableId"} \cap DOMAIN listing.raw :
        f \in DOMAIN orders[id] /\ orders[id][f] = listing.raw[f] }

ListingSortField == IF "sortBy" \in DOMAIN listing.raw THEN listing.raw.sortBy ELSE "createdAt"

\* the sequences without repetition over a set of ids
Arrangements(ids) ==
  { s \in [1..Cardinality(ids) -> ids] : \A i, j \in DOMAIN s : s[i] = s[j] => i = j }

\* s is in the order of field, then id, ascending or descending
InOrder(coll, s, field, direction) ==
  \A i, j \in DOMAIN s :
    i < j =>
      LET a == coll[s[i]][field]
          b == coll[s[j]][field]
      IN IF direction = "asc"
           THEN a < b \/ (a = b /\ DocIdRank(s[i]) < DocIdRank(s[j]))
           ELSE a > b \/ (a = b /\ DocIdRank(s[i]) > DocIdRank(s[j]))

\* the full sorted filtered sequence of the listing: the matching orders the
\* sort field orders, i.e. those that carry it
FullSequence ==
  CHOOSE s \in Arrangements({ id \in MatchingOrders : ListingSortField \in DOMAIN orders[id] }) :
    InOrder(orders, s, ListingSortField, listing.query.sortOrder)

\* positions first..last of a sequence, fewer or none past its end
Positions(s, first, last) ==
  LET end == IF last < Len(s) THEN last ELSE Len(s)
  IN [i \in 1..(IF end >= first THEN end - first + 1 ELSE 0) |-> s[first + i - 1]]

ListedIds == [i \in DOMAIN listing.result.orders |-> listing.result.orders[i].id]

\* C11: with the data set unchanged, page p with limit l holds the records at
\* positions (p-1)*l+1 .. p*l of the full sorted filtered sequence (fewer or
\* none past its end), which are the records at these positions of page 1
\* with limit p*l.
PageIsSliceOfFullSequence ==
  listing.called =>
    LET p     == listing.query.page
        l     == listing.query.limit
        whole == OrderFindWithQuery(orders, [listing.query EXCEPT !.page = 1, !.limit = p * l])
    IN /\ ListedIds = Positions(FullSequence, (p - 1) * l + 1, p * l)
       /\ listing.result.orders = Positions(whole.orders, (p - 1) * l + 1, p * l)
       /\ \A i \in DOMAIN ListedIds :
            listing.result.orders[i] = orders[ListedIds[i]] @@ [id |-> ListedIds[i]]

\* C11 witness: page 2 with limit 2 of three orders holds the third alone
LastPageWitness ==
  /\ listing.called
  /\ listing.query.page = 2
  /\ listing.query.limit = 2
  /\ Len(FullSequence) = 3
  /\ ListedIds = <<FullSequence[3]>>

\* the least n with n * limit >= total
Ceiling(total, limit) == CHOOSE n \in 0..total : n * limit >= total /\ (n = 0 \/ (n - 1) * limit < total)

\* C12 as stated: total is the number of orders matching the supplied
\* filters whatever the page, limit and sort, totalPages is ceil(total / limit)
\* and currentPage is the page asked for
TotalCountsMatchingOrders ==
  listing.called =>
    /\ listing.result.total = Cardinality(MatchingOrders)
    /\ listing.result.totalPages = Ceiling(listing.result.total, listing.query.limit)
    /\ listing.result.currentPage = listing.query.page

-----------------------------------------------------------------------------
(* Properties of the analytics (SpecAnalytics) *)

\* the orders in the window of the call
InWindow ==
  { id \in DOMAIN orders :
      /\ analytics.startDate # <<>> => orders[id].createdAt >= analytics.startDate[1]
      /\ analytics.endDate # <<>> => orders[id].createdAt <= analytics.endDate[1] }

EightStatuses == {"draft", "placed", "confirmed", "in_preparation", "ready", "served",
                  "closed", "canceled"}

ThreeChannels == {"dine_in", "takeaway", "delivery"}

\* C17: ordersByStatus has the eight status keys and ordersByChannel the three
\* channel keys, each counting the orders with that value (0 when there is
\* none), and the counts of each add up to totalOrders.
AnalyticsCountsAddUp ==
  analytics.called =>
    LET r == analytics.result
    IN /\ r.totalOrders = Cardinality(InWindow)
       /\ DOMAIN r.ordersByStatus = EightStatuses
       /\ DOMAIN r.ordersByChannel = ThreeChannels
       /\ \A st \in EightStatuses :
            r.ordersByStatus[st] = Cardinality({ id \in InWindow : orders[id].status = st })
       /\ \A c \in ThreeChannels :
            r.ordersByChannel[c] = Cardinality({ id \in InWindow : orders[id].channel = c })
       /\ SetSum(r.ordersByStatus, EightStatuses) = r.totalOrders
       /\ SetSum(r.ordersByChannel, ThreeChannels) = r.totalOrders

\* C17 witness: three orders, two statuses with orders and one with none
CountsWitness ==
  /\ analytics.called
  /\ analytics.result.totalOrders = 3
  /\ analytics.result.ordersByStatus["placed"] = 2
  /\ analytics.result.ordersByStatus["closed"] = 1
  /\ analytics.result.ordersByStatus["draft"] = 0
  /\ analytics.result.ordersByChannel["delivery"] = 0

\* the items of the scanned orders, in scan order
ScannedItems == AllItems(TransformSnapshot(orders, analytics.scanned))

ScannedProductIds == { ScannedItems[i].productId : i \in DOMAIN ScannedItems }

LinesOf(productId) == { i \in DOMAIN ScannedItems : ScannedItems[i].productId = productId }

FirstSeen(productId) == CHOOSE i \in LinesOf(productId) : \A j \in LinesOf(productId) : i <= j

QuantityOf(productId) ==
  SetSum([i \in DOMAIN ScannedItems |-> ScannedItems[i].qty], LinesOf(productId))

RevenueOf(productId) ==
  SetSum([i \in DOMAIN ScannedItems |-> ScannedItems[i].unitPrice * ScannedItems[i].qty],
         LinesOf(productId))

\* C18 as stated: topProducts has one entry per distinct productId with the
\* sums of qty and of unitPrice * qty, at most 10 entries, by revenue
\* descending, products of equal revenue in the order they were first met
TopProductsByRevenue ==
  analytics.called =>
    LET top == analytics.result.topProducts
    IN /\ Len(top) = IF Cardinality(ScannedProductIds) < 10
                       THEN Cardinality(ScannedProductIds) ELSE 10
       /\ \A i, j \in DOMAIN top : top[i].productId = top[j].productId => i = j
       /\ \A i \in DOMAIN top :
            /\ top[i].productId \in ScannedProductIds
            /\ top[i].quantity = QuantityOf(top[i].productId)
            /\ top[i].revenue = RevenueOf(top[i].productId)
       /\ \A i, j \in DOMAIN top :
            i < j =>
              \/ top[i].revenue > top[j].revenue
              \/ /\ top[i].revenue = top[j].revenue
                 /\ FirstSeen(top[i].productId) < FirstSeen(top[j].productId)
       /\ \A id \in ScannedProductIds :
            (\A i \in DOMAIN top : top[i].productId # id) =>
              \A i \in DOMAIN top : top[i].revenue >= RevenueOf(id)

-----------------------------------------------------------------------------
(* Properties of catalog listings (SpecCatalog) and of the default sort *)

NoSortGiven(raw) == "sortBy" \notin DOMAIN raw /\ "sortOrder" \notin DOMAIN raw

\* C19 as stated: with no sort field and no sort direction given, an order
\* listing is in descending createdAt and a product listing in ascending
\* position
DefaultSortOrder ==
  /\ (listing.called /\ NoSortGiven(listing.raw)) =>
       \A i, j \in DOMAIN listing.result.orders :
         i < j => listing.result.orders[i].createdAt >= listing.result.orders[j].createdAt
  /\ (productListing.called /\ NoSortGiven(productListing.raw)) =>
       \A i, j \in DOMAIN productListing.result.products :
         i < j => productListing.result.products[i].position
                    <= productListing.result.products[j].position

\* the listing asked for without its search term
WithoutSearch ==
  ProductFindWithQuery(products,
    [f \in DOMAIN productListing.query \ {"search"} |-> productListing.query[f]])

\* a capital letter and its small letter
CasePairs == {<<"A", "a">>, <<"B", "b">>, <<"C", "c">>, <<"O", "o">>, <<"P", "p">>}

SameLetter(a, b) == a = b \/ <<a, b>> \in CasePairs \/ <<b, a>> \in CasePairs

\* text contains term, letters compared without case
ContainsIgnoringCase(text, term) ==
  \E i \in 0..(Len(text) - Len(term)) :
    \A k \in 1..Len(term) : SameLetter(text[i + k], term[k])

\* C20: the products returned are those of the page of the same query
\* without the search term whose name or description contains the term
\* without regard to case, in the page's order; total and totalPages are
\* those of the query without the term.
SearchFiltersThePage ==
  productListing.called =>
    LET term == IF "search" \in DOMAIN productListing.query
                  THEN productListing.query.search ELSE <<>>
    IN /\ productListing.result.products =
            SelectSeq(WithoutSearch.products, LAMBDA product :
              \/ ContainsIgnoringCase(product.name, term)
              \/ ContainsIgnoringCase(product.description, term))
       /\ productListing.result.total = WithoutSearch.total
       /\ productListing.result.totalPages = WithoutSearch.totalPages
       /\ productListing.result.currentPage = productListing.query.page

\* C20 witness: page 2 with limit 1 holds a product that the term "pA" matches
\* in its description "com PAO" only without regard to case; it is returned,
\* and total counts all three products
SearchWitness ==
  /\ productListing.called
  /\ "search" \in DOMAIN productListing.query
  /\ productListing.query.search = <<"p", "A">>
  /\ productListing.query.page = 2
  /\ productListing.query.limit = 1
  /\ Len(WithoutSearch.products) = 1
  /\ productListing.result.products = WithoutSearch.products
  /\ productListing.result.products[1].name = <<"B", "o", "l", "o">>
  /\ productListing.result.total = 3

-----------------------------------------------------------------------------
(* Properties of the attention query (SpecAttention) *)

\* the threshold in force: the one asked for, 30 minutes when none is
AskedThreshold == IF attention.arg = <<>> THEN 30 ELSE attention.arg[1]

\* the orders that are placed or confirmed and were created more than the
\* threshold before the call
OverdueOrders ==
  { id \in DOMAIN orders :
      /\ orders[id].status \in {"placed", "confirmed"}
      /\ orders[id].createdAt + AskedThreshold < attention.at }

\* C21: getOrdersRequiringAttention(threshold) returns exactly the orders that
\* are placed or confirmed and were created earlier than now minus the
\* threshold (30 minutes by default), each once, oldest first.
AttentionReturnsOverdueOrders ==
  attention.called =>
    LET result == attention.result
    IN /\ { result[i].id : i \in DOMAIN result } = OverdueOrders
       /\ Len(result) = Cardinality(OverdueOrders)
       /\ \A i \in DOMAIN result : orders[result[i].id] @@ [id |-> result[i].id] = result[i]
       /\ \A i, j \in DOMAIN result : i < j => result[i].createdAt <= result[j].createdAt

\* the default threshold at minute 40: an order placed at minute 9 and one
\* confirmed after being created at minute 9 are returned, oldest first, while
\* the order created at minute 10, exactly 30 minutes before, is not
AttentionWitness ==
  /\ attention.called
  /\ attention.arg = <<>>
  /\ attention.at = 40
  /\ Len(attention.result) = 2
  /\ attention.result[1].status = "placed"
  /\ attention.result[2].status = "confirmed"
  /\ \E id \in DOMAIN orders :
       orders[id].createdAt = 10 /\ orders[id].status = "placed"

-----------------------------------------------------------------------------
(* Properties of order creation through the route (SpecOrders) *)

\* a create-order request whose items list is empty
EmptyItemsRequest(request) ==
  /\ request.called
  /\ "items" \in DOMAIN request.body
  /\ request.body.items = <<>>

\* C22: a create-order request whose items list is empty is answered with a
\* validation error and writes nothing to the store, and no persisted order
\* has an empty items list.
EmptyItemsRejectedAtCreation ==
  [][ /\ \A id \in DOMAIN orders' : orders'[id].items # <<>>
      /\ (orderRequest' # orderRequest /\ EmptyItemsRequest(orderRequest')) =>
           /\ orderRequest'.status = 400
           /\ orderRequest'.code = "VALIDATION_ERROR"
           /\ orders' = orders ]_vars

\* an order exists, and a later request with a valid channel and an empty
\* items list was answered 400
EmptyItemsWitness ==
  /\ EmptyItemsRequest(orderRequest)
  /\ "channel" \in DOMAIN orderRequest.body
  /\ orderRequest.body.channel = "takeaway"
  /\ orderRequest.status = 400
  /\ DOMAIN orders = {"order-a"}

\* C23: every persisted order that carries a tableId has channel dine_in.
TableIdOnlyForDineIn ==
  \A id \in DOMAIN orders :
    "tableId" \in DOMAIN orders[id] => orders[id].channel = "dine_in"

-----------------------------------------------------------------------------
(* Properties of the stored fees (SpecPricing) *)

\* the fees object holds only positive fees
OnlyPositiveFees(order) ==
  \A k \in DOMAIN order.amounts.fees : order.amounts.fees[k] > 0

\* C24: a fee that is 0 is omitted from amounts.fees: for every created order,
\* of the repository and of the mock service, fees.service and fees.delivery
\* are present only with a positive value.
ZeroFeeIsOmitted ==
  /\ \A id \in DOMAIN orders : OnlyPositiveFees(orders[id])
  /\ \A i \in DOMAIN mockOrders : OnlyPositiveFees(mockOrders[i])

-----------------------------------------------------------------------------
(* Properties of the simulated progression (SpecMock) *)

\* the forward happy path from placed to served, step by step
HappyPathSteps ==
  { <<"placed", "confirmed">>, <<"confirmed", "in_preparation">>,
    <<"in_preparation", "ready">>, <<"ready", "served">> }

\* every write to a mock order moves its status one step along the path
WritesFollowHappyPath ==
  \A k \in DOMAIN mockOrders :
    mockOrders'[k] # mockOrders[k] =>
      <<mockOrders[k].status, mockOrders'[k].status>> \in HappyPathSteps

\* C25: for an order created through the mock service the simulated
\* progression writes confirmed, in_preparation, ready, served in that order,
\* each once, never closed or canceled and never a step backwards, and the
\* order eventually reaches served.
ProgressionFollowsHappyPath ==
  /\ [][WritesFollowHappyPath]_vars
  /\ \A k \in 1..MaxMockOrders :
       (Len(mockOrders) >= k) ~> (Len(mockOrders) >= k /\ mockOrders[k].status = "served")

\* the order is served, the last write made later than 5 s + 4 * 10 s after
\* its creation, and no timer is left
ServedWitness ==
  /\ Len(mockOrders) >= 1
  /\ mockOrders[1].status = "served"
  /\ mockOrders[1].updatedAt > mockOrders[1].createdAt + 45000
  /\ mockTimers = <<>>

-----------------------------------------------------------------------------
(* Properties of closedAt and cancelReason (Spec) *)

\* C26: after any sequence of createOrder, updateStatus and cancel calls, an
\* order whose status is not closed or canceled has no closedAt, and an order
\* whose status is not canceled has no cancelReason.
ClosingFieldsOnlyOnClosedOrders ==
  \A id \in DOMAIN orders :
    /\ orders[id].status \notin {"closed", "canceled"} => "closedAt" \notin DOMAIN orders[id]
    /\ orders[id].status # "canceled" => "cancelReason" \notin DOMAIN orders[id]

-----------------------------------------------------------------------------
(* Properties of an applied coupon while the cart changes (SpecCart) *)

\* the demo coupon whose code the cart holds
AppliedCoupon ==
  CHOOSE c \in { demoCoupons[i] : i \in DOMAIN demoCoupons } : c.code = cart.couponCode[1]

\* C27: while a coupon is applied, the stored discounts equals the discount
\* the coupon yields for the current subtotal (round(subtotal * value / 100)
\* for a percent coupon, the value for a fixed one), and the current subtotal
\* meets the coupon's minSubtotal.
AppliedDiscountFollowsSubtotal ==
  cart.couponCode # <<>> =>
    /\ cart.discounts = IF AppliedCoupon.type = "percent"
                          THEN HalfUp(cart.subtotal * AppliedCoupon.value, 100)
                          ELSE AppliedCoupon.value
    /\ "minSubtotal" \in DOMAIN AppliedCoupon => cart.subtotal >= AppliedCoupon.minSubtotal

-----------------------------------------------------------------------------
(* Properties of the rate limiter (SpecRateLimit) *)

\* the arrivals of one client, in order
ArrivalsOf(identifier) == SelectSeq(responses, LAMBDA r : r.identifier = identifier)

\* the arrival that opened the window arrival k falls in: the first arrival
\* opens a window that lasts options.windowMs, and the first arrival after a
\* window's end opens the next
RECURSIVE WindowFirst(_, _)
WindowFirst(arrivals, k) ==
  IF k = 1 THEN 1
  ELSE LET first == WindowFirst(arrivals, k - 1)
       IN IF arrivals[k].at > arrivals[first].at + options.windowMs THEN k ELSE first

Least(a, b) == IF a < b THEN a ELSE b

\* C28: within one window (from its first request until its resetTime)
\* exactly the first maxRequests requests of a client are passed to next;
\* every further request of the window gets 429 without next and without a
\* change of the count; the first request after resetTime opens a new window
\* with the count restarted.
RateLimitPassesAtMostMaxRequests ==
  \A identifier \in { responses[i].identifier : i \in DOMAIN responses } :
    LET arrivals == ArrivalsOf(identifier)
        last     == Len(arrivals)
    IN /\ \A k \in DOMAIN arrivals :
            LET position == k - WindowFirst(arrivals, k) + 1
            IN /\ arrivals[k].next <=> position <= options.maxRequests
               /\ ~arrivals[k].next <=> arrivals[k].status = 429
       /\ identifier \in DOMAIN requests =>
            /\ requests[identifier].resetTime
                 = arrivals[WindowFirst(arrivals, last)].at + options.windowMs
            /\ requests[identifier].count
                 = Least(last - WindowFirst(arrivals, last) + 1, options.maxRequests)

\* one client: two requests passed, a third at the window's resetTime
\* answered 429, and a fourth after it passed again with the count at 1
NewWindowWitness ==
  /\ Len(responses) = 4
  /\ \A i \in 1..4 : responses[i].identifier = "10.0.0.1"
  /\ responses[1].at = 0 /\ responses[2].at = 0 /\ responses[3].at = 1 /\ responses[4].at = 2
  /\ responses[3].status = 429
  /\ responses[4].next
  /\ requests["10.0.0.1"] = [count |-> 1, resetTime |-> 3]

-----------------------------------------------------------------------------
(* Properties of the settings document (SpecSettings) *)

\* the document holds what the call asked for
Reflects(doc, updates) == \A f \in DOMAIN updates : doc[f] = updates[f]

\* C29: after any interleaving of concurrent updateSettings calls at most one
\* settings document exists, and the updates of every completed call are
\* reflected in it.
OneSettingsDocument ==
  /\ Cardinality(DOMAIN settings) <= 1
  /\ \A k \in DOMAIN settingsCalls :
       settingsCalls[k].phase = "done" =>
         \A id \in DOMAIN settings : Reflects(settings[id], settingsCalls[k].updates)

-----------------------------------------------------------------------------
(* Properties of the paginated response (SpecQuery) *)

\* C30: in the paginated response of a listing, hasPrev is true exactly when
\* page > 1 and hasNext exactly when page < totalPages; hasNext is thereby
\* true exactly when page * limit < total, that is when the listing's full
\* sequence has a record beyond the current page.
HasNextAndHasPrev ==
  listing.called =>
    LET pagination == listing.response.pagination
        page       == listing.query.page
        limit      == listing.query.limit
    IN /\ pagination.page = page /\ pagination.limit = limit
       /\ pagination.total = listing.result.total
       /\ pagination.hasPrev <=> page > 1
       /\ pagination.hasNext <=> page < listing.result.totalPages
       /\ pagination.hasNext <=> page * limit < listing.result.total
       /\ pagination.hasNext <=> Len(FullSequence) > page * limit
       /\ listing.response.data = listing.result.orders

\* three orders listed one per page: page 2 has a next and a previous page
MiddlePageWitness ==
  /\ listing.called
  /\ listing.query.page = 2
  /\ listing.query.limit = 1
  /\ listing.result.total = 3
  /\ listing.response.pagination.hasNext
  /\ listing.response.pagination.hasPrev

====
